---- MODULE Spec2Model ----
(***************************************************************************)
(* Model registry and dynamic composition engine of the BLE Mesh node      *)
(* (components/ble_mesh_node/src/ble_mesh_node.c).                         *)
(*                                                                         *)
(* The heap is a sequence of blocks; a pointer is an index into it and     *)
(* NULL is 0.  A block keeps the descriptor it was allocated for (owner),  *)
(* the number of times it was freed (frees) and its contents (val).        *)
(***************************************************************************)
EXTENDS Integers, Sequences, FiniteSets, TLC

VARIABLES
    pc,                      \* "boot", "ready", "failed", "crashed"
    cfg,                     \* the node_config_t handed to node_init
    failAt,                  \* which calloc call of node_init returns NULL (0: none)
    heap,                    \* every block calloc ever returned
    model_registry,          \* entries written so far, in registration order
    registered_model_count,
    dynamic_sig_models,      \* pointer to the SIG model array, or NULL
    sig_model_count,
    dynamic_vnd_models,      \* pointer to the vendor model array, or NULL
    vnd_model_count,
    elements,                \* pointer to the element record, or NULL
    stackComp,               \* composition handed to esp_ble_mesh_init, or NoComp
    initRet,                 \* what node_init returned
    logmsg,                  \* the last ESP_LOGE line of node_init
    started,                 \* app_main's node_start(): "no", "yes" or "failed"
    app,                     \* accel_x .. gyro_z of m5stick_mesh_imu.cpp
    tasks,                   \* the application task and the stack task inside a call
    sig_slot,                \* build_models' cursor into the SIG array when it returned
    vnd_slot,                \* build_models' cursor into the vendor array
    is_provisioned,          \* static bool is_provisioned of m5stick_mesh_imu.cpp
    imu_task,                \* where imu_publish_task stands
    last                     \* observation of the last API call or stack event

vars == <<pc, cfg, failAt, heap, model_registry, registered_model_count,
          dynamic_sig_models, sig_model_count, dynamic_vnd_models,
          vnd_model_count, elements, stackComp, initRet, logmsg, started,
          app, tasks, sig_slot, vnd_slot, is_provisioned, imu_task, last>>

(***************************************************************************)
(* Bounds of the model.                                                    *)
(***************************************************************************)
MaxDescs == 2        \* longest descriptor list drawn from every kind
MaxSensors == 2      \* most sensors in one sensor descriptor
MaxIndex == 2        \* largest model_index passed to an accessor

(***************************************************************************)
(* Program constants.                                                      *)
(***************************************************************************)
MAX_MODELS == 8

MESH_MODEL_TYPE_ONOFF == 0
MESH_MODEL_TYPE_LEVEL == 1
MESH_MODEL_TYPE_SENSOR == 2
MESH_MODEL_TYPE_POWER_LEVEL == 3
MESH_MODEL_TYPE_BATTERY == 4
MESH_MODEL_TYPE_VENDOR == 5

NULL == 0
ESP_BLE_MESH_ADDR_UNASSIGNED == 0

ESP_OK == "ESP_OK"
ESP_ERR_NO_MEM == "ESP_ERR_NO_MEM"
ESP_ERR_INVALID_ARG == "ESP_ERR_INVALID_ARG"
ESP_ERR_INVALID_STATE == "ESP_ERR_INVALID_STATE"
ESP_ERR_NOT_FOUND == "ESP_ERR_NOT_FOUND"

U8(x) == x % 256

(***************************************************************************)
(* Descriptors (mesh_model_config_t).  One record shape for every kind;    *)
(* the fields a kind does not use are left at their zero value.            *)
(***************************************************************************)
SensorCfg(t, rd) == [type |-> t, read |-> rd]

Desc(t, pub, cb, init, ud, sens) ==
    [type |-> t, enable_publication |-> pub, callback |-> cb,
     initial |-> init, user_data |-> ud, sensors |-> sens]

\* SENSOR_ACCEL_X, SENSOR_TEMPERATURE, SENSOR_ACCEL_Y, SENSOR_HUMIDITY
PropertyIds == <<20481, 79, 20482, 77>>

SensorList(n) == [i \in 1..n |-> SensorCfg(PropertyIds[((i - 1) % Len(PropertyIds)) + 1],
                                             IF i % 2 = 1 THEN "read" ELSE "NULL")]

(***************************************************************************)
(* Heap.                                                                   *)
(***************************************************************************)
Block(tag, owner, val) == [tag |-> tag, owner |-> owner, frees |-> 0, val |-> val]

\* m carries heap, ncalls and failAt; the result is the new m and the pointer.
calloc(m, tag, owner, val) ==
    LET n == m.ncalls + 1 IN
    IF n = m.failAt
    THEN [m |-> [m EXCEPT !.ncalls = n], p |-> NULL]
    ELSE [m |-> [m EXCEPT !.ncalls = n, !.heap = Append(@, Block(tag, owner, val))],
          p |-> Len(m.heap) + 1]

free(m, p) == [m EXCEPT !.heap[p].frees = @ + 1]

SetVal(m, p, v) == [m EXCEPT !.heap[p].val = v]

Log(m, msg) == [m EXCEPT !.log = msg]

Live(h, p) == p \in 1..Len(h) /\ h[p].frees = 0

(***************************************************************************)
(* Composition records.                                                    *)
(***************************************************************************)
\* a pointer to a publication context: field fld of the state block st
PubRef(st, fld) == [st |-> st, fld |-> fld]
NoPub == PubRef(NULL, "none")

\* a pointer to one slot of a model array: block blk, 0-based index idx
SlotRef(blk, idx) == [blk |-> blk, idx |-> idx]
NoSlot == SlotRef(NULL, 0)

ModelRec(id, pub, srv) == [model_id |-> id, pub |-> pub, user_data |-> srv]
ZeroModel == ModelRec("zero", NoPub, NULL)

\* struct net_buf_simple followed by its storage
NetBuf(size) == [len |-> 0, size |-> size, data |-> <<>>]

(***************************************************************************)
(* Runtime state blocks, as calloc leaves them.                            *)
(***************************************************************************)
ZeroOnOff == [onoff |-> 0, callback |-> "NULL", user_data |-> NULL,
              srv_onoff |-> 0, srv_target |-> 0,
              pub_msg |-> "NULL", pub_addr |-> ESP_BLE_MESH_ADDR_UNASSIGNED,
              esp_model |-> NoSlot]

ZeroLevel == [level |-> 0, callback |-> "NULL", user_data |-> NULL,
              srv_level |-> 0, srv_target |-> 0,
              pub_msg |-> "NULL", pub_addr |-> ESP_BLE_MESH_ADDR_UNASSIGNED,
              esp_model |-> NoSlot]

ZeroSensor == [sensors |-> <<>>, sensor_count |-> 0,
               sensor_states |-> NULL, sensor_bufs |-> NULL,
               pub_msg |-> NULL, pub_addr |-> ESP_BLE_MESH_ADDR_UNASSIGNED,
               setup_pub_msg |-> NULL,
               setup_pub_addr |-> ESP_BLE_MESH_ADDR_UNASSIGNED,
               esp_model |-> NoSlot]

ZeroBattery == [battery_level |-> 0, callback |-> "NULL", user_data |-> NULL,
                pub_msg |-> "NULL", pub_addr |-> ESP_BLE_MESH_ADDR_UNASSIGNED,
                esp_model |-> NoSlot]

ZeroVendor == [handler |-> "NULL", user_data |-> NULL,
               pub_addr |-> ESP_BLE_MESH_ADDR_UNASSIGNED,
               esp_model |-> NoSlot]

\* NET_BUF_SIMPLE(n) inside the init function: a compound literal whose
\* storage ends with the enclosing block; the pointer kept in pub.msg is
\* not NULL and refers to that storage.
LITERAL_BUF == "literal"

(***************************************************************************)
(* Per-kind runtime state allocation.  Each returns the new build state b, *)
(* the esp_err_t and the pointer stored in registry_entry->runtime_state   *)
(* (NULL when the entry is left as it was).                                *)
(***************************************************************************)
InitResult(b, ret, rt) == [b |-> b, ret |-> ret, rt |-> rt]

init_onoff_model(b, config, owner) ==
    LET a == calloc(b, "onoff_model_state_t", owner, ZeroOnOff) IN
    IF a.p = NULL
    THEN InitResult(Log(a.m, "Failed to allocate OnOff model state"), ESP_ERR_NO_MEM, NULL)
    ELSE LET st == [ZeroOnOff EXCEPT
                      !.onoff = config.initial,
                      !.callback = config.callback,
                      !.user_data = config.user_data,
                      !.srv_onoff = config.initial,
                      !.srv_target = config.initial,
                      !.pub_msg = IF config.enable_publication THEN LITERAL_BUF ELSE "NULL"]
         IN InitResult(SetVal(a.m, a.p, st), ESP_OK, a.p)

init_level_model(b, config, owner) ==
    LET a == calloc(b, "level_model_state_t", owner, ZeroLevel) IN
    IF a.p = NULL
    THEN InitResult(Log(a.m, "Failed to allocate Level model state"), ESP_ERR_NO_MEM, NULL)
    ELSE LET st == [ZeroLevel EXCEPT
                      !.level = config.initial,
                      !.callback = config.callback,
                      !.user_data = config.user_data,
                      !.srv_level = config.initial,
                      !.srv_target = config.initial,
                      !.pub_msg = IF config.enable_publication THEN LITERAL_BUF ELSE "NULL"]
         IN InitResult(SetVal(a.m, a.p, st), ESP_OK, a.p)

ZeroSensorState == [sensor_property_id |-> 0, raw_value |-> NULL]

\* for (j = 0; j < upto; j++) free(state->sensor_bufs[j]);
RECURSIVE free_sensor_bufs(_, _, _, _)
free_sensor_bufs(b, st, j, upto) ==
    IF j >= upto THEN b
    ELSE free_sensor_bufs(free(b, b.heap[b.heap[st].val.sensor_bufs].val[j + 1]),
                          st, j + 1, upto)

\* the variant forgets free(state)
free_sensor_tail_leak(b, st) ==
    free(free(b, b.heap[st].val.sensor_bufs), b.heap[st].val.sensor_states)

\* free(state->sensor_bufs); free(state->sensor_states); free(state);
free_sensor_tail(b, st) ==
    free(free(free(b, b.heap[st].val.sensor_bufs), b.heap[st].val.sensor_states), st)

\* the loop of init_sensor_model over the sensors, from index i on
RECURSIVE sensor_buf_loop(_, _, _, _)
sensor_buf_loop(b, st, i, owner) ==
    IF i >= b.heap[st].val.sensor_count THEN [b |-> b, ok |-> TRUE]
    ELSE
    LET s == b.heap[st].val
        a == calloc(b, "sensor_buf", owner, NetBuf(4))
    IN  IF a.p = NULL
        THEN [b |-> free_sensor_tail(
                        free_sensor_bufs(Log(a.m, "Failed to allocate sensor buffer"),
                                         st, 0, i), st),
              ok |-> FALSE]
        ELSE sensor_buf_loop(
                 [a.m EXCEPT
                    !.heap[s.sensor_bufs].val[i + 1] = a.p,
                    !.heap[s.sensor_states].val[i + 1] =
                        [sensor_property_id |-> s.sensors[i + 1].type,
                         raw_value |-> a.p]],
                 st, i + 1, owner)

\* if (state->pub.msg) free(state->pub.msg);
free_pub_msg(b, st) ==
    IF b.heap[st].val.pub_msg # NULL THEN free(b, b.heap[st].val.pub_msg) ELSE b

\* init_sensor_model, stage by stage: each stage takes the outcome a of the
\* allocation before it (a.m the build state, a.p the pointer) and the
\* state block st.
\* Stage 6: the setup publication buffer
init_sensor_setup_pub(a, st) ==
    IF a.p = NULL
    THEN InitResult(
             free_sensor_tail(
                 free_sensor_bufs(
                     free_pub_msg(Log(a.m, "Failed to allocate setup publication buffer"), st),
                     st, 0, a.m.heap[st].val.sensor_count),
                 st),
             ESP_ERR_NO_MEM, NULL)
    ELSE InitResult([a.m EXCEPT !.heap[st].val.setup_pub_msg = a.p], ESP_OK, st)

\* Stage 5: the publication buffer, allocated only with enable_publication
init_sensor_pub(a, st, config, owner) ==
    IF config.enable_publication /\ a.p = NULL
    THEN InitResult(
             free_sensor_tail(
                 free_sensor_bufs(Log(a.m, "Failed to allocate publication buffer"),
                                  st, 0, a.m.heap[st].val.sensor_count),
                 st),
             ESP_ERR_NO_MEM, NULL)
    ELSE init_sensor_setup_pub(
             calloc([a.m EXCEPT !.heap[st].val.pub_msg = a.p],
                    "sensor_setup_msg", owner, NetBuf(34)),
             st)

\* Stage 4: the per-sensor buffers; lp is the outcome of their loop
init_sensor_raw(lp, st, config, owner) ==
    IF ~lp.ok THEN InitResult(lp.b, ESP_ERR_NO_MEM, NULL)
    ELSE init_sensor_pub(
             IF config.enable_publication
             THEN calloc(lp.b, "sensor_pub_msg", owner, NetBuf(34))
             ELSE [m |-> lp.b, p |-> NULL],
             st, config, owner)

\* Stage 3: the array of buffer pointers
init_sensor_bufs(a, st, config, owner) ==
    IF a.p = NULL
    THEN InitResult(free(free(Log(a.m, "Failed to allocate sensor buffer array"),
                              a.m.heap[st].val.sensor_states), st),
                    ESP_ERR_NO_MEM, NULL)
    ELSE init_sensor_raw(
             sensor_buf_loop([a.m EXCEPT !.heap[st].val.sensor_bufs = a.p], st, 0, owner),
             st, config, owner)

\* Stage 2: the sensor states array
init_sensor_states(a, st, config, owner) ==
    IF a.p = NULL
    THEN InitResult(free(Log(a.m, "Failed to allocate sensor states"), st),
                    ESP_ERR_NO_MEM, NULL)
    ELSE init_sensor_bufs(
             calloc([a.m EXCEPT !.heap[st].val.sensor_states = a.p],
                    "sensor_bufs", owner, [i \in 1..Len(config.sensors) |-> NULL]),
             st, config, owner)

\* Stage 1: the state block
init_sensor_state(a, config, owner) ==
    IF a.p = NULL
    THEN InitResult(Log(a.m, "Failed to allocate Sensor model state"), ESP_ERR_NO_MEM, NULL)
    ELSE init_sensor_states(
             calloc(SetVal(a.m, a.p, [ZeroSensor EXCEPT
                                        !.sensors = config.sensors,
                                        !.sensor_count = Len(config.sensors)]),
                    "sensor_states", owner,
                    [i \in 1..Len(config.sensors) |-> ZeroSensorState]),
             a.p, config, owner)

init_sensor_model(b, config, owner) ==
    init_sensor_state(calloc(b, "sensor_model_state_t", owner, ZeroSensor), config, owner)

init_vendor_model(b, config, owner) ==
    LET a == calloc(b, "vendor_model_state_t", owner, ZeroVendor) IN
    IF a.p = NULL
    THEN InitResult(Log(a.m, "Failed to allocate Vendor model state"), ESP_ERR_NO_MEM, NULL)
    ELSE LET st == [ZeroVendor EXCEPT
                      !.handler = config.callback,
                      !.user_data = config.user_data]
         IN InitResult(SetVal(a.m, a.p, st), ESP_OK, a.p)

init_battery_model(b, config, owner) ==
    LET a == calloc(b, "battery_model_state_t", owner, ZeroBattery) IN
    IF a.p = NULL
    THEN InitResult(Log(a.m, "Failed to allocate Battery model state"), ESP_ERR_NO_MEM, NULL)
    ELSE LET st == [ZeroBattery EXCEPT
                      !.callback = config.callback,
                      !.user_data = config.user_data,
                      !.battery_level = 100,
                      !.pub_msg = IF config.enable_publication THEN LITERAL_BUF ELSE "NULL"]
         IN InitResult(SetVal(a.m, a.p, st), ESP_OK, a.p)

(***************************************************************************)
(* build_models.  The build state b carries the allocator (heap, ncalls,   *)
(* failAt, log), the globals the build writes (reg, cnt, sig, sigc, vnd,   *)
(* vndc, elem), the two slot cursors and the outcome chosen for a write    *)
(* past the end of model_registry (ub): "benign" when the bytes behind the *)
(* array take the entry and the build goes on, "fault" when the write      *)
(* stops the program.                                                      *)
(***************************************************************************)
RegEntry(type, esp_model, user_config, rt) ==
    [type |-> type, esp_model |-> esp_model, user_config |-> user_config,
     runtime_state |-> rt]

\* the variant counts one slot for a sensor descriptor
RECURSIVE count_models_one_per_sensor(_, _, _, _)
count_models_one_per_sensor(user_models, i, total_sig, total_vnd) ==
    IF i > Len(user_models) THEN [sig |-> total_sig, vnd |-> total_vnd]
    ELSE IF user_models[i].type = MESH_MODEL_TYPE_VENDOR
         THEN count_models_one_per_sensor(user_models, i + 1, total_sig, U8(total_vnd + 1))
         ELSE count_models_one_per_sensor(user_models, i + 1, U8(total_sig + 1), total_vnd)

\* the counting pass: uint8_t total_sig = 1, total_vnd = 0
RECURSIVE count_models(_, _, _, _)
count_models(user_models, i, total_sig, total_vnd) ==
    IF i > Len(user_models) THEN [sig |-> total_sig, vnd |-> total_vnd]
    ELSE IF user_models[i].type = MESH_MODEL_TYPE_VENDOR
         THEN count_models(user_models, i + 1, total_sig, U8(total_vnd + 1))
         ELSE IF user_models[i].type = MESH_MODEL_TYPE_SENSOR
              THEN count_models(user_models, i + 1, U8(total_sig + 2), total_vnd)
              ELSE count_models(user_models, i + 1, U8(total_sig + 1), total_vnd)

\* memcpy(&array[slot], &model, sizeof model)
PutModel(b, arr, slot, rec) == [b EXCEPT !.heap[arr].val[slot + 1] = rec]

\* state->esp_model = registry->esp_model = &array[slot]; registered_model_count++
Commit(b, st, ref) ==
    [b EXCEPT !.heap[st].val.esp_model = ref,
              !.reg[b.cnt + 1].esp_model = ref,
              !.reg[b.cnt + 1].runtime_state = st,
              !.cnt = U8(b.cnt + 1)]

PubCtx(config, st) == IF config.enable_publication THEN PubRef(st, "pub") ELSE NoPub

StepResult(b, ret) == [b |-> b, ret |-> ret]

\* default: of the switch: it ends the build and the entry is not counted;
\* the variant leaves the switch instead and the entry is counted
default_case_break(b) == StepResult([Log(b, "Unknown model type") EXCEPT !.cnt = U8(@ + 1)],
                                    ESP_OK)

default_case(b) == StepResult(Log(b, "Unknown model type"), ESP_ERR_INVALID_ARG)

\* the variant leaves the cursor where it is
place_sig_no_advance(r, id, config) ==
    IF r.ret # ESP_OK THEN StepResult(r.b, r.ret)
    ELSE StepResult(
             Commit(PutModel(r.b, r.b.sig, r.b.sig_slot, ModelRec(id, PubCtx(config, r.rt), r.rt)),
                    r.rt, SlotRef(r.b.sig, r.b.sig_slot)),
             ESP_OK)

\* after init_*_model returned r: the esp_ble_mesh_model_t is copied into
\* the next SIG slot and the registry entry completed
place_sig(r, id, config) ==
    IF r.ret # ESP_OK THEN StepResult(r.b, r.ret)
    ELSE StepResult(
             [Commit(PutModel(r.b, r.b.sig, r.b.sig_slot, ModelRec(id, PubCtx(config, r.rt), r.rt)),
                     r.rt, SlotRef(r.b.sig, r.b.sig_slot))
                 EXCEPT !.sig_slot = U8(@ + 1)],
             ESP_OK)

\* the variant gives the Sensor Setup Server the publication context the
\* descriptor asks for, as for the Sensor Server
place_sensor_setup_optional(r, config) ==
    IF r.ret # ESP_OK THEN StepResult(r.b, r.ret)
    ELSE StepResult(
             [Commit(PutModel(PutModel(r.b, r.b.sig, r.b.sig_slot,
                                       ModelRec("SENSOR_SRV", PubCtx(config, r.rt), r.rt)),
                              r.b.sig, U8(r.b.sig_slot + 1),
                              ModelRec("SENSOR_SETUP_SRV",
                                       IF config.enable_publication
                                       THEN PubRef(r.rt, "setup_pub") ELSE NoPub, r.rt)),
                     r.rt, SlotRef(r.b.sig, r.b.sig_slot))
                 EXCEPT !.sig_slot = U8(U8(@ + 1) + 1)],
             ESP_OK)

\* the sensor takes two SIG slots: Sensor Server, then Sensor Setup Server
place_sensor(r, config) ==
    IF r.ret # ESP_OK THEN StepResult(r.b, r.ret)
    ELSE StepResult(
             [Commit(PutModel(PutModel(r.b, r.b.sig, r.b.sig_slot,
                                       ModelRec("SENSOR_SRV", PubCtx(config, r.rt), r.rt)),
                              r.b.sig, U8(r.b.sig_slot + 1),
                              ModelRec("SENSOR_SETUP_SRV", PubRef(r.rt, "setup_pub"), r.rt)),
                     r.rt, SlotRef(r.b.sig, r.b.sig_slot))
                 EXCEPT !.sig_slot = U8(U8(@ + 1) + 1)],
             ESP_OK)

\* the vendor model goes into the next vendor slot
place_vnd(r, config) ==
    IF r.ret # ESP_OK THEN StepResult(r.b, r.ret)
    ELSE StepResult(
             [Commit(PutModel(r.b, r.b.vnd, r.b.vnd_slot, ModelRec("VENDOR", PubCtx(config, r.rt), NULL)),
                     r.rt, SlotRef(r.b.vnd, r.b.vnd_slot))
                 EXCEPT !.vnd_slot = U8(@ + 1)],
             ESP_OK)

\* switch (config->type), on the build state b that holds the new entry
build_case(b, config, i) ==
    CASE config.type = MESH_MODEL_TYPE_ONOFF ->
           place_sig(init_onoff_model(b, config, i), "GEN_ONOFF_SRV", config)
      [] config.type = MESH_MODEL_TYPE_LEVEL ->
           place_sig(init_level_model(b, config, i), "GEN_LEVEL_SRV", config)
      [] config.type = MESH_MODEL_TYPE_SENSOR ->
           place_sensor(init_sensor_model(b, config, i), config)
      [] config.type = MESH_MODEL_TYPE_VENDOR ->
           place_vnd(init_vendor_model(b, config, i), config)
      [] config.type = MESH_MODEL_TYPE_BATTERY ->
           place_sig(init_battery_model(b, config, i), "GEN_BATTERY_SRV", config)
      [] OTHER -> default_case(b)

\* one iteration of the placement loop: descriptor `config`, 1-based
\* position i; the registry entry is written first
build_one(b0, config, i) ==
    build_case([b0 EXCEPT !.reg = Append(SubSeq(@, 1, b0.cnt),
                                         RegEntry(config.type, NoSlot, config, NULL))],
               config, i)

\* the variant goes on with the next descriptor after a failed one
RECURSIVE build_loop_continue(_, _, _)
build_loop_continue(b, user_models, i) ==
    IF i > Len(user_models) THEN StepResult(b, ESP_OK)
    ELSE IF b.cnt >= MAX_MODELS /\ b.ub = "fault"
         THEN StepResult([b EXCEPT !.crashed = TRUE], "none")
         ELSE LET r == build_one(b, user_models[i], i) IN
              IF r.ret # ESP_OK
              THEN StepResult(build_loop_continue(r.b, user_models, i + 1).b, r.ret)
              ELSE build_loop_continue(r.b, user_models, i + 1)

\* for (i = 0; i < model_count; i++) { ... }, from 1-based position i on
RECURSIVE build_loop(_, _, _)
build_loop(b, user_models, i) ==
    IF i > Len(user_models) THEN StepResult(b, ESP_OK)
    ELSE IF b.cnt >= MAX_MODELS /\ b.ub = "fault"
         THEN StepResult([b EXCEPT !.crashed = TRUE], "none")
         ELSE LET r == build_one(b, user_models[i], i) IN
              IF r.ret # ESP_OK THEN r ELSE build_loop(r.b, user_models, i + 1)

\* the variant starts the placement loop at SIG slot 0
build_place_from_zero(a, user_models, c) ==
    IF c.vnd > 0 /\ a.p = NULL
    THEN StepResult(free(Log([a.m EXCEPT !.vnd = a.p],
                             "Failed to allocate vendor models array"), a.m.sig),
                    ESP_ERR_NO_MEM)
    ELSE build_loop([PutModel([a.m EXCEPT !.vnd = a.p], a.m.sig, 0,
                              ModelRec("CFG_SRV", NoPub, NULL))
                        EXCEPT !.sig_slot = 0, !.vnd_slot = 0],
                    user_models, 1)

\* after the vendor array allocation a (none is made when c.vnd = 0):
\* Configuration Server in SIG slot 0, then the placement loop
build_place(a, user_models, c) ==
    IF c.vnd > 0 /\ a.p = NULL
    THEN StepResult(free(Log([a.m EXCEPT !.vnd = a.p],
                             "Failed to allocate vendor models array"), a.m.sig),
                    ESP_ERR_NO_MEM)
    ELSE build_loop([PutModel([a.m EXCEPT !.vnd = a.p], a.m.sig, 0,
                              ModelRec("CFG_SRV", NoPub, NULL))
                        EXCEPT !.sig_slot = 1, !.vnd_slot = 0],
                    user_models, 1)

\* after the SIG array allocation a: the vendor array
build_arrays(a, user_models, c) ==
    IF a.p = NULL
    THEN StepResult(Log([a.m EXCEPT !.sig = a.p], "Failed to allocate SIG models array"),
                    ESP_ERR_NO_MEM)
    ELSE build_place(
             IF c.vnd > 0
             THEN calloc([a.m EXCEPT !.sig = a.p], "vnd_models", 0,
                         [k \in 1..c.vnd |-> ZeroModel])
             ELSE [m |-> [a.m EXCEPT !.sig = a.p], p |-> a.m.vnd],
             user_models, c)

\* with the slot counts c of the counting pass
build_counted(b0, user_models, c) ==
    build_arrays(calloc([b0 EXCEPT !.sigc = c.sig, !.vndc = c.vnd], "sig_models", 0,
                        [k \in 1..c.sig |-> ZeroModel]),
                 user_models, c)

build_models(b0, user_models) ==
    build_counted(b0, user_models, count_models(user_models, 1, 1, 0))

ElemRec(b) == [sig_model_count |-> b.sigc, sig_models |-> b.sig,
               vnd_model_count |-> b.vndc, vnd_models |-> b.vnd]

build_element(b) ==
    LET a == calloc(b, "elements", 0, ElemRec(b)) IN
    IF a.p = NULL
    THEN StepResult(Log([a.m EXCEPT !.elem = NULL], "Failed to allocate element"),
                    ESP_ERR_NO_MEM)
    ELSE StepResult([a.m EXCEPT !.elem = a.p], ESP_OK)

(***************************************************************************)
(* node_init.  c is the node_config_t (c.null: the config pointer itself   *)
(* is NULL; c.models_null: config->models is NULL), env the outcome of the *)
(* platform calls: "ok", "nvs" (nvs_flash_init fails), "bt"                *)
(* (bluetooth_init fails) or "mesh" (esp_ble_mesh_init fails).             *)
(***************************************************************************)
NoComp == [elements |-> NULL, element_count |-> 0]

InitDone(b, ret, comp) == [b |-> b, ret |-> ret, comp |-> comp]

\* the tail of node_init: r2 is what build_element returned
node_init_stack(r2, env) ==
    IF r2.ret # ESP_OK
    THEN InitDone(Log(r2.b, "Failed to build element"), r2.ret, NoComp)
    ELSE IF env = "mesh"
         THEN InitDone(Log(r2.b, "BLE Mesh init failed"), "ESP_FAIL",
                       [elements |-> r2.b.elem, element_count |-> 1])
         ELSE InitDone(r2.b, ESP_OK, [elements |-> r2.b.elem, element_count |-> 1])

\* the variant goes on to build_element whatever the model arrays' construction
\* returned
node_init_element_unchecked(r1, env) ==
    IF r1.b.crashed THEN InitDone(r1.b, r1.ret, NoComp)
    ELSE node_init_stack(build_element(r1.b), env)

\* r1 is what the model arrays' construction returned
node_init_element(r1, env) ==
    IF r1.b.crashed \/ r1.ret # ESP_OK THEN InitDone(r1.b, r1.ret, NoComp)
    ELSE node_init_stack(build_element(r1.b), env)

\* if (config->models && config->model_count > 0): r is what build_models
\* returned
node_init_built(r) ==
    IF r.ret # ESP_OK /\ ~r.b.crashed
    THEN StepResult(Log(r.b, "Failed to build models"), r.ret)
    ELSE r

\* else: only the Configuration Server, in the array a
node_init_fallback(a) ==
    IF a.p = NULL THEN StepResult([a.m EXCEPT !.sig = a.p], ESP_ERR_NO_MEM)
    ELSE StepResult([PutModel([a.m EXCEPT !.sig = a.p], a.p, 0,
                              ModelRec("CFG_SRV", NoPub, NULL))
                        EXCEPT !.vnd = NULL],
                    ESP_OK)

node_init(b0, c, env) ==
    IF c.null THEN InitDone(Log(b0, "Config is NULL"), ESP_ERR_INVALID_ARG, NoComp)
    ELSE IF env = "nvs" THEN InitDone(Log(b0, "NVS flash init failed"), "ESP_FAIL", NoComp)
    ELSE IF env = "bt" THEN InitDone(b0, "ESP_FAIL", NoComp)
    ELSE node_init_element(
             IF ~c.models_null /\ c.model_count > 0
             THEN node_init_built(build_models(b0, SubSeq(c.models, 1, c.model_count)))
             ELSE node_init_fallback(calloc([b0 EXCEPT !.sigc = 1, !.vndc = 0],
                                            "sig_models", 0, <<ZeroModel>>)),
             env)

(***************************************************************************)
(* Configurations.                                                         *)
(***************************************************************************)
Config(null, models_null, models, count) ==
    [null |-> null, models_null |-> models_null, models |-> models,
     model_count |-> count]

NoCfg == Config(TRUE, TRUE, <<>>, 0)

\* the caller gives every descriptor its own context pointer: its position
Stamp(list) == [i \in 1..Len(list) |-> [list[i] EXCEPT !.user_data = i]]

Models(list) == Config(FALSE, FALSE, Stamp(list), Len(list))

OnOffDesc(pub)   == Desc(MESH_MODEL_TYPE_ONOFF, pub, IF pub THEN "cb" ELSE "NULL",
                         IF pub THEN 0 ELSE 1, NULL, <<>>)
LevelDesc(pub)   == Desc(MESH_MODEL_TYPE_LEVEL, pub, IF pub THEN "cb" ELSE "NULL",
                         IF pub THEN 0 ELSE -32768, NULL, <<>>)
SensorDesc(pub, n) == Desc(MESH_MODEL_TYPE_SENSOR, pub, "NULL", 0, NULL, SensorList(n))
BatteryDesc(pub) == Desc(MESH_MODEL_TYPE_BATTERY, pub, IF pub THEN "cb" ELSE "NULL",
                         0, NULL, <<>>)
VendorDesc(pub)  == Desc(MESH_MODEL_TYPE_VENDOR, pub, IF pub THEN "cb" ELSE "NULL",
                         0, NULL, <<>>)
\* enumerated, but no case of build_models handles it
PowerLevelDesc   == Desc(MESH_MODEL_TYPE_POWER_LEVEL, TRUE, "NULL", 0, NULL, <<>>)
\* a tag outside mesh_model_type_t
BadTagDesc       == Desc(MESH_MODEL_TYPE_VENDOR + 1, TRUE, "NULL", 0, NULL, <<>>)

DescChoices ==
    {OnOffDesc(p) : p \in BOOLEAN} \cup {LevelDesc(p) : p \in BOOLEAN}
    \cup {SensorDesc(p, n) : p \in BOOLEAN, n \in 1..MaxSensors}
    \cup {BatteryDesc(p) : p \in BOOLEAN} \cup {VendorDesc(p) : p \in BOOLEAN}
    \cup {PowerLevelDesc, BadTagDesc}

RECURSIVE ListsUpTo(_, _)
ListsUpTo(S, n) ==
    IF n = 0 THEN {<<>>}
    ELSE LET shorter == ListsUpTo(S, n - 1)
         IN shorter \cup {Append(l, d) : l \in shorter, d \in S}

\* lists of one descriptor repeated, at the registry capacity and one past it
LongLists == {[i \in 1..n |-> d] : n \in {MAX_MODELS, MAX_MODELS + 1}, d \in DescChoices}

BuildConfigs ==
    {Models(l) : l \in ListsUpTo(DescChoices, MaxDescs) \cup LongLists}
    \cup {Config(FALSE, TRUE, <<>>, n) : n \in 0..MaxDescs}
    \cup {Config(FALSE, FALSE, Stamp(<<OnOffDesc(TRUE)>>), 0)}
    \cup {NoCfg}

B0(f, ub) == [heap |-> <<>>, ncalls |-> 0, failAt |-> f, log |-> "",
              reg |-> <<>>, cnt |-> 0, sig |-> NULL, sigc |-> 0,
              vnd |-> NULL, vndc |-> 0, elem |-> NULL,
              sig_slot |-> 0, vnd_slot |-> 0, ub |-> ub, crashed |-> FALSE]

\* the calloc calls node_init makes on c when none of them fails
AllocCalls(c) == node_init(B0(0, "benign"), c, "ok").b.ncalls

UBOutcomes(c) == IF ~c.null /\ ~c.models_null /\ c.model_count > MAX_MODELS
                 THEN {"benign", "fault"} ELSE {"benign"}

(***************************************************************************)
(* State machine.                                                          *)
(***************************************************************************)
\* what one call did: its name and integer arguments, what the collaborators
\* answered (inp), the esp_err_t (ret) or value (val) it returned, the send
\* calls it made and the user callbacks it invoked, in order
In(send, cbret, cbval) == [send |-> send, cbret |-> cbret, cbval |-> cbval]
NoIn == In("none", "none", 0)

\* static int16_t accel_x, accel_y, accel_z, gyro_x, gyro_y, gyro_z
Axes(ax, ay, az, gx, gy, gz) ==
    [accel_x |-> ax, accel_y |-> ay, accel_z |-> az,
     gyro_x |-> gx, gyro_y |-> gy, gyro_z |-> gz]

\* Two tasks inside a call on one instance: the application task runs the
\* statements of app_op with value b, the stack task those of the state
\* change handler with value a; app_done and stack_done count the statements
\* each has run, overlap tells that a statement of one ran while the other
\* was between its first and last, sent holds the payloads handed to send.
Tasks(kind, app_op, a, b) ==
    [kind |-> kind, app_op |-> app_op, a |-> a, b |-> b,
     app_done |-> 0, stack_done |-> 0, overlap |-> FALSE, sent |-> <<>>]

NoTasks == Tasks("none", "none", 0, 0)

\* imu_publish_task: pc is the statement it stands before, flag_read what
\* its last read of is_provisioned returned, sent the vendor sends it made,
\* flag_at_send what is_provisioned held when it made the last of them
ImuTask(at, flag_read, sent, flag_at_send) ==
    [pc |-> at, flag_read |-> flag_read, sent |-> sent, flag_at_send |-> flag_at_send]

\* the task has not been created
NoImuTask == ImuTask("none", FALSE, 0, FALSE)

Obs(op, args, inp, ret, val, sends, cbs) ==
    [op |-> op, args |-> args, inp |-> inp, ret |-> ret, val |-> val,
     sends |-> sends, cbs |-> cbs]

NoObs == Obs("none", <<>>, NoIn, "none", 0, <<>>, <<>>)

Init ==
    /\ pc = "boot"
    /\ cfg = NoCfg
    /\ failAt = 0
    /\ heap = <<>>
    /\ model_registry = <<>>
    /\ registered_model_count = 0
    /\ dynamic_sig_models = NULL
    /\ sig_model_count = 0
    /\ dynamic_vnd_models = NULL
    /\ vnd_model_count = 0
    /\ elements = NULL
    /\ stackComp = NoComp
    /\ initRet = "none"
    /\ logmsg = ""
    /\ started = "no"
    /\ app = Axes(0, 0, 0, 0, 0, 0)
    /\ tasks = NoTasks
    /\ sig_slot = 0
    /\ vnd_slot = 0
    /\ is_provisioned = FALSE
    /\ imu_task = NoImuTask
    /\ last = NoObs

\* app_main calls node_init(&config) once
NodeInit(c, f, env, ub) ==
    /\ pc = "boot"
    /\ LET r == node_init(B0(f, ub), c, env) IN
       /\ pc' = IF r.b.crashed THEN "crashed"
                ELSE IF r.ret = ESP_OK THEN "ready" ELSE "failed"
       /\ cfg' = c
       /\ failAt' = f
       /\ heap' = r.b.heap
       /\ model_registry' = r.b.reg
       /\ registered_model_count' = r.b.cnt
       /\ dynamic_sig_models' = r.b.sig
       /\ sig_model_count' = r.b.sigc
       /\ dynamic_vnd_models' = r.b.vnd
       /\ vnd_model_count' = r.b.vndc
       /\ elements' = r.b.elem
       /\ stackComp' = r.comp
       /\ initRet' = r.ret
       /\ logmsg' = r.b.log
       /\ started' = "no"
       /\ app' = app
       /\ tasks' = tasks
       /\ sig_slot' = r.b.sig_slot
       /\ vnd_slot' = r.b.vnd_slot
       /\ UNCHANGED <<is_provisioned, imu_task>>
       /\ last' = NoObs

\* esp_ble_mesh_node_prov_enable answers enable
node_start(enable) == IF enable # ESP_OK THEN enable ELSE ESP_OK

\* app_main calls node_start() once node_init returned ESP_OK, and parks in
\* while(1) when node_start fails; the publish task is created afterwards
NodeStart ==
    /\ pc = "ready"
    /\ started = "no"
    /\ \E enable \in {ESP_OK, "ESP_FAIL"} :
           started' = IF node_start(enable) = ESP_OK THEN "yes" ELSE "failed"
    /\ UNCHANGED <<pc, cfg, failAt, heap, model_registry, registered_model_count,
                   dynamic_sig_models, sig_model_count, dynamic_vnd_models,
                   vnd_model_count, elements, stackComp, initRet, logmsg, app, tasks,
                   sig_slot, vnd_slot, is_provisioned, imu_task, last>>

NodeInitAny ==
    \E c \in BuildConfigs :
        \E f \in 0..AllocCalls(c), ub \in UBOutcomes(c) : NodeInit(c, f, "ok", ub)

(***************************************************************************)
(* Registry lookup: find_onoff_model, find_level_model, find_sensor_model, *)
(* find_battery_model and find_vendor_model are the same scan over a       *)
(* different type tag.                                                     *)
(***************************************************************************)
\* for (i = 0; i < registered_model_count; i++), with the per-kind counter idx
\* the variant advances the counter on every entry, whatever its type
RECURSIVE find_scan_every_entry(_, _, _, _, _, _)
find_scan_every_entry(reg, count, type, index, i, idx) ==
    IF i >= count THEN NULL
    ELSE IF reg[i + 1].type = type /\ idx = index THEN reg[i + 1].runtime_state
         ELSE find_scan_every_entry(reg, count, type, index, i + 1, U8(idx + 1))

RECURSIVE find_scan(_, _, _, _, _, _)
find_scan(reg, count, type, index, i, idx) ==
    IF i >= count THEN NULL
    ELSE IF reg[i + 1].type = type
         THEN IF idx = index THEN reg[i + 1].runtime_state
              ELSE find_scan(reg, count, type, index, i + 1, U8(idx + 1))
         ELSE find_scan(reg, count, type, index, i + 1, idx)

\* the variant counts the per-kind index from 1
find_model_from_one(reg, count, type, index) == find_scan(reg, count, type, index, 0, 1)

find_model(reg, count, type, index) == find_scan(reg, count, type, index, 0, 0)

find_onoff_model(index) ==
    find_model(model_registry, registered_model_count, MESH_MODEL_TYPE_ONOFF, index)
find_level_model(index) ==
    find_model(model_registry, registered_model_count, MESH_MODEL_TYPE_LEVEL, index)
find_sensor_model(index) ==
    find_model(model_registry, registered_model_count, MESH_MODEL_TYPE_SENSOR, index)
find_battery_model(index) ==
    find_model(model_registry, registered_model_count, MESH_MODEL_TYPE_BATTERY, index)
find_vendor_model(index) ==
    find_model(model_registry, registered_model_count, MESH_MODEL_TYPE_VENDOR, index)

find(kind, index) ==
    CASE kind = MESH_MODEL_TYPE_ONOFF -> find_onoff_model(index)
      [] kind = MESH_MODEL_TYPE_LEVEL -> find_level_model(index)
      [] kind = MESH_MODEL_TYPE_SENSOR -> find_sensor_model(index)
      [] kind = MESH_MODEL_TYPE_BATTERY -> find_battery_model(index)
      [] kind = MESH_MODEL_TYPE_VENDOR -> find_vendor_model(index)

HandledKinds == {MESH_MODEL_TYPE_ONOFF, MESH_MODEL_TYPE_LEVEL, MESH_MODEL_TYPE_SENSOR,
                 MESH_MODEL_TYPE_BATTERY, MESH_MODEL_TYPE_VENDOR}

Indexes == 0..MaxIndex \cup {MAX_MODELS - 1, MAX_MODELS}

(***************************************************************************)
(* Runtime accessors.  Each operator is one API function on heap h; it     *)
(* returns the new heap, the return code or value, the send calls and the  *)
(* callbacks made, and whether the call faulted.                           *)
(***************************************************************************)
Res(h, ret, val, sends, cbs, crashed) ==
    [heap |-> h, ret |-> ret, val |-> val, sends |-> sends, cbs |-> cbs,
     crashed |-> crashed]

\* esp_ble_mesh_server_model_send_msg(model, ctx, opcode, len, data)
Send(model, addr, opcode, data) ==
    [model |-> model, addr |-> addr, opcode |-> opcode, len |-> Len(data), data |-> data]

CbCall(cb, arg, user_data) == [cb |-> cb, arg |-> arg, user_data |-> user_data]

Calls(cb, arg, user_data) == IF cb # "NULL" THEN <<CbCall(cb, arg, user_data)>> ELSE <<>>

\* net_buf_simple_add_u8 / _le16 / _le32: the low bytes of the value in
\* two's complement (\div rounds down, so a negative value sign-extends)
Bytes_u8(x) == <<x % 256>>
\* the variant writes the high byte first
Bytes_be16(x) == <<(x \div 256) % 256, x % 256>>
Bytes_le16(x) == <<x % 256, (x \div 256) % 256>>
Bytes_le32(x) == <<x % 256, (x \div 256) % 256, (x \div 65536) % 256,
                   (x \div 16777216) % 256>>
U16(x) == x % 65536

ModelAt(h, ref) == h[ref.blk].val[ref.idx + 1]

PubAddr(h, pub) ==
    IF pub.fld = "pub" THEN h[pub.st].val.pub_addr ELSE h[pub.st].val.setup_pub_addr

OP_GEN_ONOFF_STATUS == 33284           \* 0x8204
OP_GEN_LEVEL_STATUS == 33288           \* 0x8208
OP_SENSOR_STATUS == 82                 \* 0x52
OP_GEN_BATTERY_STATUS == 33316         \* 0x8224
VENDOR_MODEL_OP_IMU_DATA == 12582913   \* 0xC00001

\* the variant returns the not-found value through a uint8_t
mesh_model_get_onoff_unsigned(h, model_index) ==
    LET st == find_onoff_model(model_index) IN
    IF st = NULL THEN Res(h, "none", 255, <<>>, <<>>, FALSE)
    ELSE Res(h, "none", h[st].val.onoff, <<>>, <<>>, FALSE)

mesh_model_get_onoff(h, model_index) ==
    LET st == find_onoff_model(model_index) IN
    IF st = NULL THEN Res(h, "none", -1, <<>>, <<>>, FALSE)
    ELSE Res(h, "none", h[st].val.onoff, <<>>, <<>>, FALSE)

\* sret: what the send call answers; ub: what a write through the pointer
\* to the ended compound literal does ("ok": the bytes land and are sent,
\* "fault": the program stops)
mesh_model_publish_onoff(h, model_index, onoff, sret, ub) ==
    LET st == find_onoff_model(model_index) IN
    IF st = NULL THEN Res(h, ESP_ERR_NOT_FOUND, 0, <<>>, <<>>, FALSE)
    ELSE IF h[st].val.pub_addr = ESP_BLE_MESH_ADDR_UNASSIGNED
    THEN Res(h, ESP_ERR_INVALID_STATE, 0, <<>>, <<>>, FALSE)
    ELSE
    LET h1 == [h EXCEPT ![st].val.onoff = onoff,
                        ![st].val.srv_onoff = onoff,
                        ![st].val.srv_target = onoff]
    IN
    IF h1[st].val.pub_msg = "NULL" THEN Res(h1, ESP_ERR_NO_MEM, 0, <<>>, <<>>, FALSE)
    ELSE IF ub = "fault" THEN Res(h1, "none", 0, <<>>, <<>>, TRUE)
    ELSE Res(h1, sret, 0,
             <<Send(h1[st].val.esp_model, h1[st].val.pub_addr, OP_GEN_ONOFF_STATUS,
                    Bytes_u8(onoff))>>,
             <<>>, FALSE)

\* the variant leaves the write to the publish call when publish is true
mesh_model_set_onoff_publish_only(h, model_index, onoff, publish, sret, ub) ==
    LET st == find_onoff_model(model_index) IN
    IF st = NULL THEN Res(h, ESP_ERR_NOT_FOUND, 0, <<>>, <<>>, FALSE)
    ELSE IF publish
    THEN LET r == mesh_model_publish_onoff(h, model_index, onoff, sret, ub)
         IN [r EXCEPT !.cbs = Calls(h[st].val.callback, onoff, h[st].val.user_data) \o @]
    ELSE Res([h EXCEPT ![st].val.onoff = onoff,
                       ![st].val.srv_onoff = onoff,
                       ![st].val.srv_target = onoff],
             ESP_OK, 0, <<>>, Calls(h[st].val.callback, onoff, h[st].val.user_data), FALSE)

mesh_model_set_onoff(h, model_index, onoff, publish, sret, ub) ==
    LET st == find_onoff_model(model_index) IN
    IF st = NULL THEN Res(h, ESP_ERR_NOT_FOUND, 0, <<>>, <<>>, FALSE)
    ELSE
    LET h1 == [h EXCEPT ![st].val.onoff = onoff,
                        ![st].val.srv_onoff = onoff,
                        ![st].val.srv_target = onoff]
        cbs == Calls(h1[st].val.callback, onoff, h1[st].val.user_data)
    IN
    IF publish
    THEN LET r == mesh_model_publish_onoff(h1, model_index, onoff, sret, ub)
         IN [r EXCEPT !.cbs = cbs \o @]
    ELSE Res(h1, ESP_OK, 0, <<>>, cbs, FALSE)

mesh_model_get_level(h, model_index) ==
    LET st == find_level_model(model_index) IN
    IF st = NULL THEN Res(h, "none", -32768, <<>>, <<>>, FALSE)
    ELSE Res(h, "none", h[st].val.level, <<>>, <<>>, FALSE)

\* the variant goes on to send without looking at the publish address
mesh_model_publish_level_unchecked(h, model_index, level, sret, ub) ==
    LET st == find_level_model(model_index) IN
    IF st = NULL THEN Res(h, ESP_ERR_NOT_FOUND, 0, <<>>, <<>>, FALSE)
    ELSE
    LET h1 == [h EXCEPT ![st].val.level = level,
                        ![st].val.srv_level = level,
                        ![st].val.srv_target = level]
    IN
    IF h1[st].val.pub_msg = "NULL" THEN Res(h1, ESP_ERR_NO_MEM, 0, <<>>, <<>>, FALSE)
    ELSE IF ub = "fault" THEN Res(h1, "none", 0, <<>>, <<>>, TRUE)
    ELSE Res(h1, sret, 0,
             <<Send(h1[st].val.esp_model, h1[st].val.pub_addr, OP_GEN_LEVEL_STATUS,
                    Bytes_le16(U16(level)))>>,
             <<>>, FALSE)

mesh_model_publish_level(h, model_index, level, sret, ub) ==
    LET st == find_level_model(model_index) IN
    IF st = NULL THEN Res(h, ESP_ERR_NOT_FOUND, 0, <<>>, <<>>, FALSE)
    ELSE IF h[st].val.pub_addr = ESP_BLE_MESH_ADDR_UNASSIGNED
    THEN Res(h, ESP_ERR_INVALID_STATE, 0, <<>>, <<>>, FALSE)
    ELSE
    LET h1 == [h EXCEPT ![st].val.level = level,
                        ![st].val.srv_level = level,
                        ![st].val.srv_target = level]
    IN
    IF h1[st].val.pub_msg = "NULL" THEN Res(h1, ESP_ERR_NO_MEM, 0, <<>>, <<>>, FALSE)
    ELSE IF ub = "fault" THEN Res(h1, "none", 0, <<>>, <<>>, TRUE)
    ELSE Res(h1, sret, 0,
             <<Send(h1[st].val.esp_model, h1[st].val.pub_addr, OP_GEN_LEVEL_STATUS,
                    Bytes_le16(U16(level)))>>,
             <<>>, FALSE)

\* the variant puts the old value back when the publish step fails
mesh_model_set_level_rollback(h, model_index, level, publish, sret, ub) ==
    LET st == find_level_model(model_index) IN
    IF st = NULL THEN Res(h, ESP_ERR_NOT_FOUND, 0, <<>>, <<>>, FALSE)
    ELSE
    LET h1 == [h EXCEPT ![st].val.level = level,
                        ![st].val.srv_level = level,
                        ![st].val.srv_target = level]
        cbs == Calls(h1[st].val.callback, level, h1[st].val.user_data)
    IN
    IF publish
    THEN LET r == mesh_model_publish_level(h1, model_index, level, sret, ub)
         IN IF r.ret # ESP_OK /\ ~r.crashed
            THEN [r EXCEPT !.cbs = cbs \o @, !.heap = h]
            ELSE [r EXCEPT !.cbs = cbs \o @]
    ELSE Res(h1, ESP_OK, 0, <<>>, cbs, FALSE)

mesh_model_set_level(h, model_index, level, publish, sret, ub) ==
    LET st == find_level_model(model_index) IN
    IF st = NULL THEN Res(h, ESP_ERR_NOT_FOUND, 0, <<>>, <<>>, FALSE)
    ELSE
    LET h1 == [h EXCEPT ![st].val.level = level,
                        ![st].val.srv_level = level,
                        ![st].val.srv_target = level]
        cbs == Calls(h1[st].val.callback, level, h1[st].val.user_data)
    IN
    IF publish
    THEN LET r == mesh_model_publish_level(h1, model_index, level, sret, ub)
         IN [r EXCEPT !.cbs = cbs \o @]
    ELSE Res(h1, ESP_OK, 0, <<>>, cbs, FALSE)

\* for (i = 0; i < sensor_count; i++) if (sensors[i].type == sensor_type):
\* the 0-based index of the first match, or -1
RECURSIVE sensor_index(_, _, _)
sensor_index(sensors, sensor_type, i) ==
    IF i >= Len(sensors) THEN -1
    ELSE IF sensors[i + 1].type = sensor_type THEN i
         ELSE sensor_index(sensors, sensor_type, i + 1)

\* net_buf_simple_reset(buf); net_buf_simple_add_*(buf, ...)
net_buf_simple_reset(nb) == [nb EXCEPT !.len = 0, !.data = <<>>]
net_buf_simple_add(nb, bytes) ==
    [nb EXCEPT !.len = @ + Len(bytes), !.data = @ \o bytes]

\* the variant appends the status to what the publication buffer holds
sensor_status_msg_noreset(msg, sensor_type, buf) ==
    net_buf_simple_add(
        net_buf_simple_add(net_buf_simple_add(msg, Bytes_u8(4 * 2 + 1)),
                           Bytes_le16(sensor_type)),
        SubSeq(buf.data, 1, buf.len))

\* net_buf_simple_reset(msg); value_len = 4; format_byte = (value_len << 1) | 0x01;
\* add_u8(format_byte); add_le16(sensor_type); add_mem(buf->data, buf->len)
sensor_status_msg(msg, sensor_type, buf) ==
    net_buf_simple_add(
        net_buf_simple_add(net_buf_simple_add(net_buf_simple_reset(msg), Bytes_u8(4 * 2 + 1)),
                           Bytes_le16(sensor_type)),
        SubSeq(buf.data, 1, buf.len))

\* rret, rval: what the user's read callback returns and stores in *value_out
\* the variant answers ESP_OK and the value 0 for a sensor without read
\* callback, as the publish function does
mesh_model_read_sensor_default_zero(h, model_index, sensor_type, rret, rval) ==
    LET st == find_sensor_model(model_index) IN
    IF st = NULL THEN Res(h, ESP_ERR_NOT_FOUND, 0, <<>>, <<>>, FALSE)
    ELSE
    LET i == sensor_index(h[st].val.sensors, sensor_type, 0) IN
    IF i < 0 THEN Res(h, ESP_ERR_NOT_FOUND, 0, <<>>, <<>>, FALSE)
    ELSE IF h[st].val.sensors[i + 1].read # "NULL"
         THEN Res(h, rret, IF rret = ESP_OK THEN rval ELSE 0, <<>>,
                  <<CbCall(h[st].val.sensors[i + 1].read, sensor_type, NULL)>>, FALSE)
         ELSE Res(h, ESP_OK, 0, <<>>, <<>>, FALSE)

mesh_model_read_sensor(h, model_index, sensor_type, rret, rval) ==
    LET st == find_sensor_model(model_index) IN
    IF st = NULL THEN Res(h, ESP_ERR_NOT_FOUND, 0, <<>>, <<>>, FALSE)
    ELSE
    LET i == sensor_index(h[st].val.sensors, sensor_type, 0) IN
    IF i < 0 THEN Res(h, ESP_ERR_NOT_FOUND, 0, <<>>, <<>>, FALSE)
    ELSE IF h[st].val.sensors[i + 1].read # "NULL"
         THEN Res(h, rret, IF rret = ESP_OK THEN rval ELSE 0, <<>>,
                  <<CbCall(h[st].val.sensors[i + 1].read, sensor_type, NULL)>>, FALSE)
         ELSE Res(h, ESP_ERR_INVALID_STATE, 0, <<>>, <<>>, FALSE)

\* the variant checks the publish address before it reads the sensor
mesh_model_publish_sensor_check_first(h, model_index, sensor_type, rret, rval, sret) ==
    LET st == find_sensor_model(model_index) IN
    IF st = NULL THEN Res(h, ESP_ERR_NOT_FOUND, 0, <<>>, <<>>, FALSE)
    ELSE
    LET s == h[st].val
        i == sensor_index(s.sensors, sensor_type, 0)
    IN
    IF i < 0 THEN Res(h, ESP_ERR_NOT_FOUND, 0, <<>>, <<>>, FALSE)
    ELSE IF s.pub_addr = ESP_BLE_MESH_ADDR_UNASSIGNED
    THEN Res(h, ESP_ERR_INVALID_STATE, 0, <<>>, <<>>, FALSE)
    ELSE
    LET hasRead == s.sensors[i + 1].read # "NULL"
        cbs == IF hasRead THEN <<CbCall(s.sensors[i + 1].read, sensor_type, NULL)>>
               ELSE <<>>
        sensor_value == IF hasRead THEN rval ELSE 0
    IN
    IF hasRead /\ rret # ESP_OK THEN Res(h, rret, 0, <<>>, cbs, FALSE)
    ELSE
    LET buf == h[s.sensor_states].val[i + 1].raw_value
        h1 == [h EXCEPT ![buf].val = net_buf_simple_add(net_buf_simple_reset(@),
                                                        Bytes_le32(sensor_value))]
        msg == s.pub_msg
        h2 == [h1 EXCEPT ![msg].val = sensor_status_msg(@, sensor_type, h1[buf].val)]
    IN Res(h2, sret, 0,
           <<Send(s.esp_model, s.pub_addr, OP_SENSOR_STATUS,
                  SubSeq(h2[msg].val.data, 1, h2[msg].val.len))>>,
           cbs, FALSE)

mesh_model_publish_sensor(h, model_index, sensor_type, rret, rval, sret) ==
    LET st == find_sensor_model(model_index) IN
    IF st = NULL THEN Res(h, ESP_ERR_NOT_FOUND, 0, <<>>, <<>>, FALSE)
    ELSE
    LET s == h[st].val
        i == sensor_index(s.sensors, sensor_type, 0)
    IN
    IF i < 0 THEN Res(h, ESP_ERR_NOT_FOUND, 0, <<>>, <<>>, FALSE)
    ELSE
    LET hasRead == s.sensors[i + 1].read # "NULL"
        cbs == IF hasRead THEN <<CbCall(s.sensors[i + 1].read, sensor_type, NULL)>>
               ELSE <<>>
        sensor_value == IF hasRead THEN rval ELSE 0
    IN
    IF hasRead /\ rret # ESP_OK THEN Res(h, rret, 0, <<>>, cbs, FALSE)
    ELSE
    LET buf == h[s.sensor_states].val[i + 1].raw_value
        h1 == [h EXCEPT ![buf].val = net_buf_simple_add(net_buf_simple_reset(@),
                                                        Bytes_le32(sensor_value))]
    IN
    IF s.pub_addr = ESP_BLE_MESH_ADDR_UNASSIGNED
    THEN Res(h1, ESP_ERR_INVALID_STATE, 0, <<>>, cbs, FALSE)
    ELSE
    LET msg == s.pub_msg
        h2 == [h1 EXCEPT ![msg].val = sensor_status_msg(@, sensor_type, h1[buf].val)]
    IN Res(h2, sret, 0,
           <<Send(s.esp_model, s.pub_addr, OP_SENSOR_STATUS,
                  SubSeq(h2[msg].val.data, 1, h2[msg].val.len))>>,
           cbs, FALSE)

\* the variant sends a second time when the first send call fails
mesh_model_send_vendor_retry(h, model_index, opcode, data, dest_addr, sret) ==
    LET st == find_vendor_model(model_index) IN
    IF st = NULL THEN Res(h, ESP_ERR_NOT_FOUND, 0, <<>>, <<>>, FALSE)
    ELSE IF h[st].val.esp_model = NoSlot
    THEN Res(h, ESP_ERR_INVALID_STATE, 0, <<>>, <<>>, FALSE)
    ELSE Res(h, sret, 0,
             IF sret # ESP_OK
             THEN <<Send(h[st].val.esp_model, dest_addr, opcode, data),
                    Send(h[st].val.esp_model, dest_addr, opcode, data)>>
             ELSE <<Send(h[st].val.esp_model, dest_addr, opcode, data)>>,
             <<>>, FALSE)

mesh_model_send_vendor(h, model_index, opcode, data, dest_addr, sret) ==
    LET st == find_vendor_model(model_index) IN
    IF st = NULL THEN Res(h, ESP_ERR_NOT_FOUND, 0, <<>>, <<>>, FALSE)
    ELSE IF h[st].val.esp_model = NoSlot
    THEN Res(h, ESP_ERR_INVALID_STATE, 0, <<>>, <<>>, FALSE)
    ELSE Res(h, sret, 0, <<Send(h[st].val.esp_model, dest_addr, opcode, data)>>,
             <<>>, FALSE)

mesh_model_publish_vendor(h, model_index, opcode, data, sret) ==
    LET st == find_vendor_model(model_index) IN
    IF st = NULL THEN Res(h, ESP_ERR_NOT_FOUND, 0, <<>>, <<>>, FALSE)
    ELSE IF h[st].val.esp_model = NoSlot
    THEN Res(h, ESP_ERR_INVALID_STATE, 0, <<>>, <<>>, FALSE)
    ELSE
    LET pub == ModelAt(h, h[st].val.esp_model).pub IN
    IF pub = NoPub THEN Res(h, ESP_ERR_INVALID_STATE, 0, <<>>, <<>>, FALSE)
    ELSE IF PubAddr(h, pub) = ESP_BLE_MESH_ADDR_UNASSIGNED
    THEN Res(h, ESP_ERR_INVALID_STATE, 0, <<>>, <<>>, FALSE)
    ELSE Res(h, sret, 0,
             <<Send(h[st].val.esp_model, PubAddr(h, pub), opcode, data)>>, <<>>, FALSE)

NOT_WRITTEN == -1

\* cret, cval: what the user's battery callback returns and stores in *level
mesh_model_get_battery(h, model_index, cret, cval) ==
    LET st == find_battery_model(model_index) IN
    IF st = NULL THEN Res(h, "none", 0, <<>>, <<>>, FALSE)
    ELSE IF h[st].val.callback # "NULL"
         THEN LET h1 == IF cret = ESP_OK
                        THEN [h EXCEPT ![st].val.battery_level = U8(cval)] ELSE h
              IN Res(h1, "none", h1[st].val.battery_level, <<>>,
                     <<CbCall(h[st].val.callback, 0, h[st].val.user_data)>>, FALSE)
         ELSE Res(h, "none", h[st].val.battery_level, <<>>, <<>>, FALSE)

\* the variant serves the first battery model when the index is not found
mesh_model_set_battery_fallback(h, model_index, battery_level) ==
    LET f  == find_battery_model(model_index)
        st == IF f = NULL THEN find_battery_model(0) ELSE f
    IN
    IF st = NULL THEN Res(h, ESP_ERR_NOT_FOUND, 0, <<>>, <<>>, FALSE)
    ELSE Res([h EXCEPT ![st].val.battery_level =
                           IF battery_level > 100 THEN 100 ELSE battery_level],
             ESP_OK, 0, <<>>, <<>>, FALSE)

mesh_model_set_battery(h, model_index, battery_level) ==
    LET st == find_battery_model(model_index) IN
    IF st = NULL THEN Res(h, ESP_ERR_NOT_FOUND, 0, <<>>, <<>>, FALSE)
    ELSE Res([h EXCEPT ![st].val.battery_level =
                           IF battery_level > 100 THEN 100 ELSE battery_level],
             ESP_OK, 0, <<>>, <<>>, FALSE)

\* The callback writes through &battery_level, a local that starts as the
\* stored level; cval is what it wrote (NOT_WRITTEN: nothing).  Only an
\* ESP_OK answer is stored, but the local is what the payload carries.
\* state->esp_model->pub->msg is read without a check of pub: with
\* publication disabled pub is NULL and the read faults.
mesh_model_publish_battery(h, model_index, cret, cval, sret, ub) ==
    LET st == find_battery_model(model_index) IN
    IF st = NULL THEN Res(h, ESP_ERR_NOT_FOUND, 0, <<>>, <<>>, FALSE)
    ELSE IF h[st].val.esp_model = NoSlot
    THEN Res(h, ESP_ERR_INVALID_STATE, 0, <<>>, <<>>, FALSE)
    ELSE
    LET hasCb == h[st].val.callback # "NULL"
        cbs == Calls(h[st].val.callback, 0, h[st].val.user_data)
        battery_level == IF hasCb /\ cval # NOT_WRITTEN THEN U8(cval)
                         ELSE h[st].val.battery_level
        h1 == IF hasCb /\ cret = ESP_OK
              THEN [h EXCEPT ![st].val.battery_level = battery_level] ELSE h
        pub == ModelAt(h, h[st].val.esp_model).pub
    IN
    IF pub = NoPub THEN Res(h1, "none", 0, <<>>, cbs, TRUE)
    ELSE IF h[pub.st].val.pub_msg = "NULL"
    THEN Res(h1, ESP_ERR_INVALID_STATE, 0, <<>>, cbs, FALSE)
    ELSE IF ub = "fault" THEN Res(h1, "none", 0, <<>>, cbs, TRUE)
    ELSE Res(h1, sret, 0,
             <<Send(h[st].val.esp_model, PubAddr(h, pub), OP_GEN_BATTERY_STATUS,
                    Bytes_u8(battery_level) \o <<255, 255, 255>> \o <<255, 255, 255>>
                        \o <<0>>)>>,
             cbs, FALSE)

\* legacy pair
node_get_onoff_state(h) ==
    LET r == mesh_model_get_onoff(h, 0) IN
    [r EXCEPT !.val = IF r.val >= 0 THEN U8(r.val) ELSE 255]

\* the variant does not publish
node_set_onoff_state_local(h, onoff, sret, ub) ==
    mesh_model_set_onoff(h, 0, onoff, FALSE, sret, ub)

node_set_onoff_state(h, onoff, sret, ub) == mesh_model_set_onoff(h, 0, onoff, TRUE, sret, ub)

(***************************************************************************)
(* Stack callbacks.  The BLE stack calls them with the event of a message  *)
(* it has received and processed.                                          *)
(***************************************************************************)
\* STATE_CHANGE_EVT with recv_op GEN_ONOFF_SET / GEN_LEVEL_SET; any other
\* event or opcode only logs
\* the variant serves the instance whose composition slot received the event
mesh_generic_server_cb_by_slot(h, model, recv_op, value) ==
    IF recv_op = "onoff_set"
    THEN LET st == IF model = NoSlot THEN NULL ELSE ModelAt(h, model).user_data IN
         IF st = NULL THEN Res(h, "none", 0, <<>>, <<>>, FALSE)
         ELSE Res([h EXCEPT ![st].val.onoff = value,
                            ![st].val.srv_onoff = value,
                            ![st].val.srv_target = value],
                  "none", 0, <<>>,
                  Calls(h[st].val.callback, value, h[st].val.user_data), FALSE)
    ELSE IF recv_op = "level_set"
    THEN LET st == IF model = NoSlot THEN NULL ELSE ModelAt(h, model).user_data IN
         IF st = NULL THEN Res(h, "none", 0, <<>>, <<>>, FALSE)
         ELSE Res([h EXCEPT ![st].val.level = value,
                            ![st].val.srv_level = value,
                            ![st].val.srv_target = value],
                  "none", 0, <<>>,
                  Calls(h[st].val.callback, value, h[st].val.user_data), FALSE)
    ELSE Res(h, "none", 0, <<>>, <<>>, FALSE)

\* the variant writes through the pointer find_*_model(0) returned without
\* the test for NULL
mesh_generic_server_cb_unchecked(h, model, recv_op, value) ==
    IF recv_op = "onoff_set"
    THEN LET st == find_onoff_model(0) IN
         IF st = NULL THEN Res(h, "none", 0, <<>>, <<>>, TRUE)
         ELSE Res([h EXCEPT ![st].val.onoff = value,
                            ![st].val.srv_onoff = value,
                            ![st].val.srv_target = value],
                  "none", 0, <<>>,
                  Calls(h[st].val.callback, value, h[st].val.user_data), FALSE)
    ELSE IF recv_op = "level_set"
    THEN LET st == find_level_model(0) IN
         IF st = NULL THEN Res(h, "none", 0, <<>>, <<>>, TRUE)
         ELSE Res([h EXCEPT ![st].val.level = value,
                            ![st].val.srv_level = value,
                            ![st].val.srv_target = value],
                  "none", 0, <<>>,
                  Calls(h[st].val.callback, value, h[st].val.user_data), FALSE)
    ELSE Res(h, "none", 0, <<>>, <<>>, FALSE)

\* the variant invokes the change callback before the stores, with the
\* value the instance held
mesh_generic_server_cb_notify_first(h, model, recv_op, value) ==
    IF recv_op = "onoff_set"
    THEN LET st == find_onoff_model(0) IN
         IF st = NULL THEN Res(h, "none", 0, <<>>, <<>>, FALSE)
         ELSE Res([h EXCEPT ![st].val.onoff = value,
                            ![st].val.srv_onoff = value,
                            ![st].val.srv_target = value],
                  "none", 0, <<>>,
                  Calls(h[st].val.callback, h[st].val.onoff, h[st].val.user_data), FALSE)
    ELSE IF recv_op = "level_set"
    THEN LET st == find_level_model(0) IN
         IF st = NULL THEN Res(h, "none", 0, <<>>, <<>>, FALSE)
         ELSE Res([h EXCEPT ![st].val.level = value,
                            ![st].val.srv_level = value,
                            ![st].val.srv_target = value],
                  "none", 0, <<>>,
                  Calls(h[st].val.callback, h[st].val.level, h[st].val.user_data), FALSE)
    ELSE Res(h, "none", 0, <<>>, <<>>, FALSE)

\* model: param->model, the composition slot that received the message (not
\* read by the handler)
mesh_generic_server_cb(h, model, recv_op, value) ==
    IF recv_op = "onoff_set"
    THEN LET st == find_onoff_model(0) IN
         IF st = NULL THEN Res(h, "none", 0, <<>>, <<>>, FALSE)
         ELSE Res([h EXCEPT ![st].val.onoff = value,
                            ![st].val.srv_onoff = value,
                            ![st].val.srv_target = value],
                  "none", 0, <<>>,
                  Calls(h[st].val.callback, value, h[st].val.user_data), FALSE)
    ELSE IF recv_op = "level_set"
    THEN LET st == find_level_model(0) IN
         IF st = NULL THEN Res(h, "none", 0, <<>>, <<>>, FALSE)
         ELSE Res([h EXCEPT ![st].val.level = value,
                            ![st].val.srv_level = value,
                            ![st].val.srv_target = value],
                  "none", 0, <<>>,
                  Calls(h[st].val.callback, value, h[st].val.user_data), FALSE)
    ELSE Res(h, "none", 0, <<>>, <<>>, FALSE)

mesh_sensor_server_cb(h) == Res(h, "none", 0, <<>>, <<>>, FALSE)

\* the variant gives the message to the first vendor entry, whatever its
\* esp_model
RECURSIVE custom_model_scan_first(_, _, _, _)
custom_model_scan_first(h, model, opcode, i) ==
    IF i >= registered_model_count THEN <<>>
    ELSE LET e == model_registry[i + 1] IN
         IF e.type = MESH_MODEL_TYPE_VENDOR /\ e.runtime_state # NULL
         THEN Calls(h[e.runtime_state].val.handler, opcode,
                    h[e.runtime_state].val.user_data)
         ELSE custom_model_scan_first(h, model, opcode, i + 1)

\* for (i = 0; i < registered_model_count; i++): the first vendor entry
\* whose esp_model is the event's model gets the message
RECURSIVE custom_model_scan(_, _, _, _)
custom_model_scan(h, model, opcode, i) ==
    IF i >= registered_model_count THEN <<>>
    ELSE LET e == model_registry[i + 1] IN
         IF /\ e.type = MESH_MODEL_TYPE_VENDOR
            /\ e.runtime_state # NULL
            /\ h[e.runtime_state].val.esp_model = model
         THEN Calls(h[e.runtime_state].val.handler, opcode,
                    h[e.runtime_state].val.user_data)
         ELSE custom_model_scan(h, model, opcode, i + 1)

mesh_custom_model_cb(h, model, opcode) ==
    Res(h, "none", 0, <<>>, custom_model_scan(h, model, opcode, 0), FALSE)

\* Config Model Publication Set: the stack stores the address in the
\* model's publication context, then reports MODEL_PUB_SET, which only logs.
\* A model composed without a publication context has none to configure.
mesh_config_server_cb(h, model, pub_addr) ==
    LET pub == ModelAt(h, model).pub IN
    IF pub = NoPub THEN Res(h, "none", 0, <<>>, <<>>, FALSE)
    ELSE IF pub.fld = "pub"
         THEN Res([h EXCEPT ![pub.st].val.pub_addr = pub_addr], "none", 0, <<>>, <<>>, FALSE)
         ELSE Res([h EXCEPT ![pub.st].val.setup_pub_addr = pub_addr],
                  "none", 0, <<>>, <<>>, FALSE)

(***************************************************************************)
(* publish_imu_data of m5stick_mesh_imu.cpp.                               *)
(***************************************************************************)
\* integer division of C: the quotient is truncated toward zero
c_div(a, d) == IF a >= 0 THEN a \div d ELSE -((-a) \div d)

\* the byte an (int8_t) conversion of x leaves in memory
Bytes_i8(x) == <<x % 256>>

\* the variant scales the accelerometer by 10 and the gyroscope by 100
imu_compact_data_swapped(timestamp, a) ==
    Bytes_le16(timestamp)
    \o Bytes_i8(c_div(a.accel_x, 10)) \o Bytes_i8(c_div(a.accel_y, 10))
    \o Bytes_i8(c_div(a.accel_z, 10))
    \o Bytes_i8(c_div(a.gyro_x, 100)) \o Bytes_i8(c_div(a.gyro_y, 100))
    \o Bytes_i8(c_div(a.gyro_z, 100))

\* the variant clamps each quotient to -128..127
Clamp8(q) == IF q > 127 THEN 127 ELSE IF q < -128 THEN -128 ELSE q

imu_compact_data_saturating(timestamp, a) ==
    Bytes_le16(timestamp)
    \o Bytes_i8(Clamp8(c_div(a.accel_x, 100))) \o Bytes_i8(Clamp8(c_div(a.accel_y, 100)))
    \o Bytes_i8(Clamp8(c_div(a.accel_z, 100)))
    \o Bytes_i8(Clamp8(c_div(a.gyro_x, 10))) \o Bytes_i8(Clamp8(c_div(a.gyro_y, 10)))
    \o Bytes_i8(Clamp8(c_div(a.gyro_z, 10)))

\* imu_compact_data_t imu_data = { timestamp, (int8_t)(accel_x / 100), ...,
\* (int8_t)(gyro_x / 10), ... } as the packed struct lies in memory
imu_compact_data_t(timestamp, a) ==
    Bytes_le16(timestamp)
    \o Bytes_i8(c_div(a.accel_x, 100)) \o Bytes_i8(c_div(a.accel_y, 100))
    \o Bytes_i8(c_div(a.accel_z, 100))
    \o Bytes_i8(c_div(a.gyro_x, 10)) \o Bytes_i8(c_div(a.gyro_y, 10))
    \o Bytes_i8(c_div(a.gyro_z, 10))

\* now: what esp_timer_get_time() returns, in microseconds
publish_imu_data(h, a, now, sret) ==
    mesh_model_send_vendor(h, 0, VENDOR_MODEL_OP_IMU_DATA,
                           imu_compact_data_t(U16(now \div 1000), a), 1, sret)

(***************************************************************************)
(* Runtime actions: the application task calls the API, the stack task     *)
(* delivers events.                                                        *)
(***************************************************************************)
OnOffVals == {0, 1, 2}
LevelVals == {-32768, 300}
BatteryVals == {0, 101}
BatteryReads == {50, 200}
SensorVals == {-1, 80}
SensorTypes == {20481, 79, 9999}
PubAddrs == {ESP_BLE_MESH_ADDR_UNASSIGNED, 49152}
DestAddrs == {1}
VendorData == {<<>>, <<1, 2>>}
ErrCodes == {ESP_OK, "ESP_FAIL"}
\* what the battery callback answers: ESP_OK with a level written, or an
\* error with a level written or not
BatteryAnswers == (ErrCodes \X BatteryReads) \cup {<<"ESP_FAIL", NOT_WRITTEN>>}
UBChoices == {"ok", "fault"}
ModelIndexes == 0..MaxIndex
B2I(x) == IF x THEN 1 ELSE 0

ModelSlots ==
    {SlotRef(dynamic_sig_models, i) : i \in 0..(sig_model_count - 1)}
    \cup {SlotRef(dynamic_vnd_models, i) : i \in 0..(vnd_model_count - 1)}

\* An answer of a collaborator is an input of the step only when the
\* call asked for it: a step that made no send call has no send result, and
\* one that called no callback has no callback answer (one representative of
\* the unused input is kept).
Consumed(inp, r) ==
    /\ (r.sends = <<>> /\ ~r.crashed) => inp.send \in {"none", ESP_OK}
    /\ r.cbs = <<>> => (inp.cbret \in {"none", ESP_OK} /\ inp.cbval \in {0, 50, 80})

Apply(op, args, inp, r) ==
    /\ pc = "ready"
    /\ started = "yes"
    /\ Consumed(inp, r)
    /\ pc' = IF r.crashed THEN "crashed" ELSE pc
    /\ heap' = r.heap
    /\ last' = Obs(op, args, inp, r.ret, r.val, r.sends, r.cbs)
    /\ UNCHANGED <<cfg, failAt, model_registry, registered_model_count,
                   dynamic_sig_models, sig_model_count, dynamic_vnd_models,
                   vnd_model_count, elements, stackComp, initRet, logmsg,
                   started, app, tasks, sig_slot, vnd_slot, is_provisioned,
                   imu_task>>

GetOnOff ==
    \E i \in ModelIndexes : Apply("get_onoff", <<i>>, NoIn, mesh_model_get_onoff(heap, i))

SetOnOff ==
    \E i \in ModelIndexes, v \in OnOffVals, p \in BOOLEAN, sr \in ErrCodes, ub \in UBChoices :
        Apply("set_onoff", <<i, v, B2I(p)>>, In(sr, "none", 0),
              mesh_model_set_onoff(heap, i, v, p, sr, ub))

PublishOnOff ==
    \E i \in ModelIndexes, v \in OnOffVals, sr \in ErrCodes, ub \in UBChoices :
        Apply("publish_onoff", <<i, v>>, In(sr, "none", 0),
              mesh_model_publish_onoff(heap, i, v, sr, ub))

GetLevel ==
    \E i \in ModelIndexes : Apply("get_level", <<i>>, NoIn, mesh_model_get_level(heap, i))

SetLevel ==
    \E i \in ModelIndexes, v \in LevelVals, p \in BOOLEAN, sr \in ErrCodes, ub \in UBChoices :
        Apply("set_level", <<i, v, B2I(p)>>, In(sr, "none", 0),
              mesh_model_set_level(heap, i, v, p, sr, ub))

PublishLevel ==
    \E i \in ModelIndexes, v \in LevelVals, sr \in ErrCodes, ub \in UBChoices :
        Apply("publish_level", <<i, v>>, In(sr, "none", 0),
              mesh_model_publish_level(heap, i, v, sr, ub))

ReadSensor ==
    \E i \in ModelIndexes, t \in SensorTypes, rr \in ErrCodes, rv \in SensorVals :
        Apply("read_sensor", <<i, t>>, In("none", rr, rv),
              mesh_model_read_sensor(heap, i, t, rr, rv))

PublishSensor ==
    \E i \in ModelIndexes, t \in SensorTypes, rr \in ErrCodes, rv \in SensorVals,
       sr \in ErrCodes :
        Apply("publish_sensor", <<i, t>>, In(sr, rr, rv),
              mesh_model_publish_sensor(heap, i, t, rr, rv, sr))

SendVendor ==
    \E i \in ModelIndexes, d \in VendorData, a \in DestAddrs, sr \in ErrCodes :
        Apply("send_vendor", <<i, VENDOR_MODEL_OP_IMU_DATA, Len(d), a>>, In(sr, "none", 0),
              mesh_model_send_vendor(heap, i, VENDOR_MODEL_OP_IMU_DATA, d, a, sr))

PublishVendor ==
    \E i \in ModelIndexes, d \in VendorData, sr \in ErrCodes :
        Apply("publish_vendor", <<i, VENDOR_MODEL_OP_IMU_DATA, Len(d)>>, In(sr, "none", 0),
              mesh_model_publish_vendor(heap, i, VENDOR_MODEL_OP_IMU_DATA, d, sr))

GetBattery ==
    \E i \in ModelIndexes, c \in BatteryAnswers :
        Apply("get_battery", <<i>>, In("none", c[1], c[2]),
              mesh_model_get_battery(heap, i, c[1], c[2]))

SetBattery ==
    \E i \in ModelIndexes, v \in BatteryVals :
        Apply("set_battery", <<i, v>>, NoIn, mesh_model_set_battery(heap, i, v))

PublishBattery ==
    \E i \in ModelIndexes, c \in BatteryAnswers, sr \in ErrCodes, ub \in UBChoices :
        Apply("publish_battery", <<i>>, In(sr, c[1], c[2]),
              mesh_model_publish_battery(heap, i, c[1], c[2], sr, ub))

NodeGetOnOffState == Apply("node_get_onoff_state", <<>>, NoIn, node_get_onoff_state(heap))

NodeSetOnOffState ==
    \E v \in OnOffVals, sr \in ErrCodes, ub \in UBChoices :
        Apply("node_set_onoff_state", <<v>>, In(sr, "none", 0),
              node_set_onoff_state(heap, v, sr, ub))

\* the composition slots holding a model of this SIG id; NoSlot stands for
\* the record of a delivery when the composition has none
EvtSlots(id) ==
    IF \E m \in ModelSlots : ModelAt(heap, m).model_id = id
    THEN {m \in ModelSlots : ModelAt(heap, m).model_id = id}
    ELSE {NoSlot}

GenericServerEvt ==
    \/ \E m \in EvtSlots("GEN_ONOFF_SRV"), v \in OnOffVals :
          Apply("evt_onoff_set", <<m.blk, m.idx, v>>, NoIn,
                mesh_generic_server_cb(heap, m, "onoff_set", v))
    \/ \E m \in EvtSlots("GEN_LEVEL_SRV"), v \in LevelVals :
          Apply("evt_level_set", <<m.blk, m.idx, v>>, NoIn,
                mesh_generic_server_cb(heap, m, "level_set", v))
    \/ Apply("evt_generic_other", <<>>, NoIn,
             mesh_generic_server_cb(heap, NoSlot, "delta_set", 0))

SensorServerEvt == Apply("evt_sensor", <<>>, NoIn, mesh_sensor_server_cb(heap))

VendorOpcodes == {VENDOR_MODEL_OP_IMU_DATA, VENDOR_MODEL_OP_IMU_DATA + 1}

CustomModelEvt ==
    \E m \in ModelSlots, opcode \in VendorOpcodes :
        Apply("evt_vendor_op", <<m.blk, m.idx, opcode>>, NoIn,
              mesh_custom_model_cb(heap, m, opcode))

ConfigPubSetEvt ==
    \E m \in ModelSlots, a \in PubAddrs :
        Apply("evt_pub_set", <<m.blk, m.idx, a>>, NoIn, mesh_config_server_cb(heap, m, a))

(***************************************************************************)
(* Specifications.  SpecBuild explores node_init over every configuration  *)
(* and allocation failure; Spec runs the API and the stack events on the   *)
(* registries of a fixed set of configurations.                            *)
(***************************************************************************)
RunLists ==
    { <<>>,
      <<OnOffDesc(TRUE), OnOffDesc(FALSE)>>,
      <<LevelDesc(TRUE), LevelDesc(FALSE)>>,
      <<SensorDesc(TRUE, 2)>>,
      <<SensorDesc(FALSE, 1)>>,
      <<BatteryDesc(TRUE), BatteryDesc(FALSE)>>,
      <<VendorDesc(TRUE), VendorDesc(FALSE), VendorDesc(TRUE)>>,
      <<OnOffDesc(FALSE), VendorDesc(TRUE), LevelDesc(FALSE)>> }

RunConfigs == {Models(l) : l \in RunLists}

NodeInitRun == \E c \in RunConfigs : NodeInit(c, 0, "ok", "benign")

NextBuild == NodeInitAny \/ NodeStart

SpecBuild == Init /\ [][NextBuild]_vars

\* The status codecs over their whole input range: one switch and one
\* dimmer, both built with publication, on a provisioned node whose
\* provisioner bound both publish addresses; one publish per behaviour, as a
\* publish resets the buffer and its payload holds the argument only.
CodecConfig == Models(<<OnOffDesc(TRUE), LevelDesc(TRUE)>>)

CodecBuilt == node_init(B0(0, "benign"), CodecConfig, "ok")

InitCodec ==
    /\ pc = "ready"
    /\ cfg = CodecConfig
    /\ failAt = 0
    /\ heap = mesh_config_server_cb(
                  mesh_config_server_cb(CodecBuilt.b.heap, SlotRef(CodecBuilt.b.sig, 1),
                                        49152).heap,
                  SlotRef(CodecBuilt.b.sig, 2), 49152).heap
    /\ model_registry = CodecBuilt.b.reg
    /\ registered_model_count = CodecBuilt.b.cnt
    /\ dynamic_sig_models = CodecBuilt.b.sig
    /\ sig_model_count = CodecBuilt.b.sigc
    /\ dynamic_vnd_models = CodecBuilt.b.vnd
    /\ vnd_model_count = CodecBuilt.b.vndc
    /\ elements = CodecBuilt.b.elem
    /\ stackComp = CodecBuilt.comp
    /\ initRet = CodecBuilt.ret
    /\ logmsg = CodecBuilt.b.log
    /\ started = "yes"
    /\ app = Axes(0, 0, 0, 0, 0, 0)
    /\ tasks = NoTasks
    /\ sig_slot = CodecBuilt.b.sig_slot
    /\ vnd_slot = CodecBuilt.b.vnd_slot
    /\ is_provisioned = FALSE
    /\ imu_task = NoImuTask
    /\ last = NoObs

PublishOnOffCodec ==
    /\ last = NoObs
    /\ \E v \in 0..255, sr \in ErrCodes, ub \in UBChoices :
           Apply("publish_onoff", <<0, v>>, In(sr, "none", 0),
                 mesh_model_publish_onoff(heap, 0, v, sr, ub))

PublishLevelCodec ==
    /\ last = NoObs
    /\ \E level \in -32768..32767, sr \in ErrCodes, ub \in UBChoices :
           Apply("publish_level", <<0, level>>, In(sr, "none", 0),
                 mesh_model_publish_level(heap, 0, level, sr, ub))

NextCodec == PublishOnOffCodec \/ PublishLevelCodec

SpecCodec == InitCodec /\ [][NextCodec]_vars

\* publish_imu_data over samples of the six axes: the node of app_main (a
\* sensor model and a vendor model without handler), with the statics as
\* the last IMU read left them; one publish per behaviour, as the payload
\* holds the clock and the statics only.
AccelSamples == {-1500, 1500, -50, 12800}
GyroSamples == {-250, 250, 9, -1280}
ClockSamples == {1999, 65535999, 65536000, 65537000}

ImuVendorDesc == Desc(MESH_MODEL_TYPE_VENDOR, TRUE, "NULL", 0, NULL, <<>>)

ImuConfig == Models(<<SensorDesc(TRUE, 2), ImuVendorDesc>>)

ImuBuilt == node_init(B0(0, "benign"), ImuConfig, "ok")

InitImu ==
    /\ pc = "ready"
    /\ cfg = ImuConfig
    /\ failAt = 0
    /\ heap = ImuBuilt.b.heap
    /\ model_registry = ImuBuilt.b.reg
    /\ registered_model_count = ImuBuilt.b.cnt
    /\ dynamic_sig_models = ImuBuilt.b.sig
    /\ sig_model_count = ImuBuilt.b.sigc
    /\ dynamic_vnd_models = ImuBuilt.b.vnd
    /\ vnd_model_count = ImuBuilt.b.vndc
    /\ elements = ImuBuilt.b.elem
    /\ stackComp = ImuBuilt.comp
    /\ initRet = ImuBuilt.ret
    /\ logmsg = ImuBuilt.b.log
    /\ started = "yes"
    /\ app \in {Axes(ax, ay, az, gx, gy, gz) :
                   ax \in AccelSamples, ay \in AccelSamples, az \in AccelSamples,
                   gx \in GyroSamples, gy \in GyroSamples, gz \in GyroSamples}
    /\ tasks = NoTasks
    /\ sig_slot = ImuBuilt.b.sig_slot
    /\ vnd_slot = ImuBuilt.b.vnd_slot
    /\ is_provisioned = FALSE
    /\ imu_task = NoImuTask
    /\ last = NoObs

PublishImuData ==
    /\ last = NoObs
    /\ \E now \in ClockSamples, sr \in ErrCodes :
           Apply("publish_imu_data", <<now>>, In(sr, "none", 0),
                 publish_imu_data(heap, app, now, sr))

NextImu == PublishImuData

\* every int16_t value on all six axes
INT16_MAX == 32767
INT16_MIN == -(INT16_MAX + 1)

InitImuRange ==
    /\ pc = "ready"
    /\ cfg = ImuConfig
    /\ failAt = 0
    /\ heap = ImuBuilt.b.heap
    /\ model_registry = ImuBuilt.b.reg
    /\ registered_model_count = ImuBuilt.b.cnt
    /\ dynamic_sig_models = ImuBuilt.b.sig
    /\ sig_model_count = ImuBuilt.b.sigc
    /\ dynamic_vnd_models = ImuBuilt.b.vnd
    /\ vnd_model_count = ImuBuilt.b.vndc
    /\ elements = ImuBuilt.b.elem
    /\ stackComp = ImuBuilt.comp
    /\ initRet = ImuBuilt.ret
    /\ logmsg = ImuBuilt.b.log
    /\ started = "yes"
    /\ app \in {Axes(v, v, v, v, v, v) : v \in INT16_MIN..INT16_MAX}
    /\ tasks = NoTasks
    /\ sig_slot = ImuBuilt.b.sig_slot
    /\ vnd_slot = ImuBuilt.b.vnd_slot
    /\ is_provisioned = FALSE
    /\ imu_task = NoImuTask
    /\ last = NoObs

SpecImuRange == InitImuRange /\ [][NextImu]_vars

SpecImu == InitImu /\ [][NextImu]_vars

\* An inbound set event handled by the stack task while the application
\* task is inside a set or publish call on the same instance.  No lock is
\* taken anywhere in ble_mesh_node.c, so the statements of the two tasks
\* interleave in any order.
\* mesh_model_set_onoff / mesh_model_set_level, then the publish function
SetStmts == <<"value", "present", "target", "callback">>
PublishStmts == <<"check", "value", "present", "target", "send">>

AppStmts(app_op) ==
    CASE app_op = "set" -> SetStmts
      [] app_op = "set_publish" -> SetStmts \o PublishStmts
      [] OTHER -> PublishStmts

\* the variant leaves out the store to the server target value
StackStmts_no_target == <<"value", "present", "callback">>

\* mesh_generic_server_cb: state->onoff = new_state; state->server.state.onoff
\* = new_state; state->server.state.target_onoff = new_state; callback
StackStmts == <<"value", "present", "target", "callback">>

\* the field of the runtime state a statement stores to
FieldOf(kind, stmt) ==
    CASE stmt = "value" -> IF kind = "onoff" THEN "onoff" ELSE "level"
      [] stmt = "present" -> IF kind = "onoff" THEN "srv_onoff" ELSE "srv_level"
      [] OTHER -> "srv_target"

RaceTarget(kind) == IF kind = "onoff" THEN find_onoff_model(0) ELSE find_level_model(0)

\* one statement of either task on the state block st
exec_stmt(h, st, kind, stmt, v) ==
    IF stmt \in {"value", "present", "target"}
    THEN [h EXCEPT ![st].val[FieldOf(kind, stmt)] = v]
    ELSE h

RaceVals(kind) == IF kind = "onoff" THEN {0, 1} ELSE {300, -32768}

InitRace ==
    /\ pc = "ready"
    /\ cfg = CodecConfig
    /\ failAt = 0
    /\ heap = mesh_config_server_cb(
                  mesh_config_server_cb(CodecBuilt.b.heap, SlotRef(CodecBuilt.b.sig, 1),
                                        49152).heap,
                  SlotRef(CodecBuilt.b.sig, 2), 49152).heap
    /\ model_registry = CodecBuilt.b.reg
    /\ registered_model_count = CodecBuilt.b.cnt
    /\ dynamic_sig_models = CodecBuilt.b.sig
    /\ sig_model_count = CodecBuilt.b.sigc
    /\ dynamic_vnd_models = CodecBuilt.b.vnd
    /\ vnd_model_count = CodecBuilt.b.vndc
    /\ elements = CodecBuilt.b.elem
    /\ stackComp = CodecBuilt.comp
    /\ initRet = CodecBuilt.ret
    /\ logmsg = CodecBuilt.b.log
    /\ started = "yes"
    /\ app = Axes(0, 0, 0, 0, 0, 0)
    /\ tasks \in {Tasks(kind, app_op, a, b) :
                     kind \in {"onoff", "level"},
                     app_op \in {"set", "set_publish", "publish"},
                     a \in {300, 1}, b \in {-32768, 0}}
    /\ tasks.a \in RaceVals(tasks.kind)
    /\ tasks.b \in RaceVals(tasks.kind)
    /\ sig_slot = CodecBuilt.b.sig_slot
    /\ vnd_slot = CodecBuilt.b.vnd_slot
    /\ is_provisioned = FALSE
    /\ imu_task = NoImuTask
    /\ last = NoObs

\* the application task runs its next statement
AppStep ==
    /\ tasks.app_done < Len(AppStmts(tasks.app_op))
    /\ LET stmt == AppStmts(tasks.app_op)[tasks.app_done + 1]
           st   == RaceTarget(tasks.kind)
           stop == stmt = "check"
                   /\ heap[st].val.pub_addr = ESP_BLE_MESH_ADDR_UNASSIGNED
       IN  /\ heap' = exec_stmt(heap, st, tasks.kind, stmt, tasks.b)
           /\ tasks' = [tasks EXCEPT
                 !.app_done = IF stop THEN Len(AppStmts(tasks.app_op)) ELSE @ + 1,
                 !.overlap = @ \/ (tasks.stack_done > 0
                                    /\ tasks.stack_done < Len(StackStmts)),
                 !.sent = IF stmt = "send" THEN Append(@, tasks.b) ELSE @]
    /\ UNCHANGED <<pc, cfg, failAt, model_registry, registered_model_count,
                   dynamic_sig_models, sig_model_count, dynamic_vnd_models,
                   vnd_model_count, elements, stackComp, initRet, logmsg,
                   started, app, sig_slot, vnd_slot, is_provisioned, imu_task,
                   last>>

\* the stack task runs the next statement of the handler
StackStep ==
    /\ tasks.stack_done < Len(StackStmts)
    /\ heap' = exec_stmt(heap, RaceTarget(tasks.kind), tasks.kind,
                         StackStmts[tasks.stack_done + 1], tasks.a)
    /\ tasks' = [tasks EXCEPT
          !.stack_done = @ + 1,
          !.overlap = @ \/ (tasks.app_done > 0
                             /\ tasks.app_done < Len(AppStmts(tasks.app_op)))]
    /\ UNCHANGED <<pc, cfg, failAt, model_registry, registered_model_count,
                   dynamic_sig_models, sig_model_count, dynamic_vnd_models,
                   vnd_model_count, elements, stackComp, initRet, logmsg,
                   started, app, sig_slot, vnd_slot, is_provisioned, imu_task,
                   last>>

NextRace == AppStep \/ StackStep

SpecRace == InitRace /\ [][NextRace]_vars

\* imu_publish_task beside the provisioning callbacks.  app_main creates the
\* task once node_start has succeeded; provisioned_callback and
\* reset_callback run in the stack task, and is_provisioned is a plain
\* static bool, so a step of either task can fall between any two
\* statements of the other.
MaxSends == 3
TaskSamples == {Axes(0, 0, 0, 0, 0, 0), Axes(1500, -1500, 12800, 250, -250, 9)}

InitTask ==
    /\ pc = "ready"
    /\ cfg = ImuConfig
    /\ failAt = 0
    /\ heap = ImuBuilt.b.heap
    /\ model_registry = ImuBuilt.b.reg
    /\ registered_model_count = ImuBuilt.b.cnt
    /\ dynamic_sig_models = ImuBuilt.b.sig
    /\ sig_model_count = ImuBuilt.b.sigc
    /\ dynamic_vnd_models = ImuBuilt.b.vnd
    /\ vnd_model_count = ImuBuilt.b.vndc
    /\ elements = ImuBuilt.b.elem
    /\ stackComp = ImuBuilt.comp
    /\ initRet = ImuBuilt.ret
    /\ logmsg = ImuBuilt.b.log
    /\ started = "yes"
    /\ app = Axes(0, 0, 0, 0, 0, 0)
    /\ tasks = NoTasks
    /\ sig_slot = ImuBuilt.b.sig_slot
    /\ vnd_slot = ImuBuilt.b.vnd_slot
    /\ is_provisioned = FALSE
    /\ imu_task = ImuTask("delay", FALSE, 0, FALSE)
    /\ last = NoObs

\* what the steps of the task and of the provisioning callbacks leave alone
BuiltVars == <<cfg, failAt, model_registry, registered_model_count,
               dynamic_sig_models, sig_model_count, dynamic_vnd_models,
               vnd_model_count, elements, stackComp, initRet, logmsg, started,
               tasks, sig_slot, vnd_slot>>

\* vTaskDelay(pdMS_TO_TICKS(5000)) before the loop
ImuTaskDelay ==
    /\ imu_task.pc = "delay"
    /\ pc \in {"ready", "resetting"}
    /\ imu_task' = [imu_task EXCEPT !.pc = "check"]
    /\ UNCHANGED <<BuiltVars, pc, heap, app, is_provisioned, last>>

\* the variant goes on to the IMU read without looking at is_provisioned
ImuTaskCheckSkipped ==
    /\ imu_task.pc = "check"
    /\ pc \in {"ready", "resetting"}
    /\ imu_task' = [imu_task EXCEPT !.pc = "update"]
    /\ UNCHANGED <<BuiltVars, pc, heap, app, is_provisioned, last>>

\* if (!is_provisioned) { vTaskDelay(1000); continue; }
ImuTaskCheck ==
    /\ imu_task.pc = "check"
    /\ pc \in {"ready", "resetting"}
    /\ imu_task' = [imu_task EXCEPT !.flag_read = is_provisioned,
                                    !.pc = IF is_provisioned THEN "update" ELSE "check"]
    /\ UNCHANGED <<BuiltVars, pc, heap, app, is_provisioned, last>>

\* M5.Imu.update(); accel_x = ...; ...; gyro_z = ...
ImuTaskUpdate ==
    /\ imu_task.pc = "update"
    /\ pc \in {"ready", "resetting"}
    /\ app' \in TaskSamples
    /\ imu_task' = [imu_task EXCEPT !.pc = "publish"]
    /\ UNCHANGED <<BuiltVars, pc, heap, is_provisioned, last>>

\* publish_imu_data(); vTaskDelay(pdMS_TO_TICKS(100));
ImuTaskPublish ==
    /\ imu_task.pc = "publish"
    /\ pc \in {"ready", "resetting"}
    /\ imu_task.sent < MaxSends
    /\ \E sr \in ErrCodes :
          LET r == publish_imu_data(heap, app, 1999, sr) IN
          /\ heap' = r.heap
          /\ last' = Obs("publish_imu_data", <<1999>>, In(sr, "none", 0), r.ret, r.val,
                         r.sends, r.cbs)
    /\ imu_task' = [imu_task EXCEPT !.pc = "check", !.sent = @ + 1,
                                    !.flag_at_send = is_provisioned]
    /\ UNCHANGED <<BuiltVars, pc, app, is_provisioned>>

\* mesh_prov_cb, ESP_BLE_MESH_NODE_PROV_COMPLETE_EVT: provisioned_callback
ProvCompleteEvt ==
    /\ pc = "ready"
    /\ is_provisioned' = TRUE
    /\ last' = Obs("evt_prov_complete", <<>>, NoIn, "none", 0, <<>>, <<>>)
    /\ UNCHANGED <<BuiltVars, pc, heap, app, imu_task>>

\* mesh_prov_cb, ESP_BLE_MESH_NODE_PROV_RESET_EVT: reset_callback clears the
\* flag and sleeps two seconds before esp_restart()
ProvResetEvt ==
    /\ pc = "ready"
    /\ is_provisioned' = FALSE
    /\ pc' = "resetting"
    /\ last' = Obs("evt_prov_reset", <<>>, NoIn, "none", 0, <<>>, <<>>)
    /\ UNCHANGED <<BuiltVars, heap, app, imu_task>>

\* esp_restart() at the end of reset_callback
EspRestart ==
    /\ pc = "resetting"
    /\ pc' = "restarted"
    /\ imu_task' = [imu_task EXCEPT !.pc = "none"]
    /\ UNCHANGED <<BuiltVars, heap, app, is_provisioned, last>>

NextTask ==
    \/ ImuTaskDelay \/ ImuTaskCheck \/ ImuTaskUpdate \/ ImuTaskPublish
    \/ ProvCompleteEvt \/ ProvResetEvt \/ EspRestart

SpecTask == InitTask /\ [][NextTask]_vars

Next ==
    \/ NodeInitRun \/ NodeStart
    \/ GetOnOff \/ SetOnOff \/ PublishOnOff
    \/ GetLevel \/ SetLevel \/ PublishLevel
    \/ ReadSensor \/ PublishSensor
    \/ SendVendor \/ PublishVendor
    \/ GetBattery \/ SetBattery \/ PublishBattery
    \/ NodeGetOnOffState \/ NodeSetOnOffState
    \/ GenericServerEvt \/ SensorServerEvt \/ CustomModelEvt \/ ConfigPubSetEvt

Spec == Init /\ [][Next]_vars

(***************************************************************************)
(* Properties of the build.                                                *)
(***************************************************************************)
\* node_init reached build_models with the descriptor list of cfg
BuildCalled == pc # "boot" /\ ~cfg.null /\ ~cfg.models_null /\ cfg.model_count > 0

\* the descriptors build_models was given
Descs == IF BuildCalled THEN SubSeq(cfg.models, 1, cfg.model_count) ELSE <<>>

\* positions of the descriptors of kind k in that list
DescsOfKind(k) == {j \in 1..Len(Descs) : Descs[j].type = k}

\* C1: for a descriptor list of length n with s sensor and v vendor
\* descriptors handed to build_models, sig_model_count is
\* 1 + (n - s - v) + 2*s and vnd_model_count is v.
C1_SlotCounts ==
    BuildCalled =>
        LET n == cfg.model_count
            s == Cardinality(DescsOfKind(MESH_MODEL_TYPE_SENSOR))
            v == Cardinality(DescsOfKind(MESH_MODEL_TYPE_VENDOR))
        IN /\ sig_model_count = 1 + (n - s - v) + 2 * s
           /\ vnd_model_count = v

C1_Witness ==
    /\ pc = "ready"
    /\ BuildCalled
    /\ DescsOfKind(MESH_MODEL_TYPE_SENSOR) # {}
    /\ DescsOfKind(MESH_MODEL_TYPE_VENDOR) # {}
    /\ sig_model_count = 3
    /\ vnd_model_count = 1

\* the registry of a build that succeeded within the registry's capacity
ValidRegistry == pc = "ready" /\ registered_model_count <= MAX_MODELS

\* C2: after a successful build, find(k, i) is the runtime state allocated
\* for the i-th descriptor of kind k in descriptor order, and it is NULL
\* exactly when i is at least the number of descriptors of kind k.
C2_FindIthOfKind ==
    ValidRegistry =>
        \A k \in HandledKinds, i \in Indexes :
            LET P == DescsOfKind(k)
                st == find(k, i)
            IN /\ (st = NULL) <=> (i >= Cardinality(P))
               /\ i < Cardinality(P) =>
                    \E j \in P :
                        /\ Cardinality({x \in P : x < j}) = i
                        /\ st = model_registry[j].runtime_state
                        /\ Live(heap, st)
                        /\ heap[st].owner = j
                        /\ model_registry[j].user_config = cfg.models[j]

C2_Witness ==
    /\ ValidRegistry
    /\ Cardinality(DescsOfKind(MESH_MODEL_TYPE_VENDOR)) = 1
    /\ cfg.model_count = 2
    /\ cfg.models[2].type = MESH_MODEL_TYPE_VENDOR
    /\ find_vendor_model(0) = model_registry[2].runtime_state
    /\ find_vendor_model(1) = NULL

\* C7 (as claimed): a descriptor count above MAX_MODELS makes node_init
\* fail, and no registry entry is ever written at or beyond capacity.
C7_CapacityEnforced ==
    /\ registered_model_count <= MAX_MODELS
    /\ Len(model_registry) <= MAX_MODELS
    /\ (BuildCalled /\ cfg.model_count > MAX_MODELS) =>
           (pc = "failed" /\ initRet \notin {ESP_OK, ESP_ERR_NO_MEM, ESP_ERR_INVALID_ARG})

\* C8 (as claimed): a NULL descriptor list with a nonzero count is refused
\* with ESP_ERR_INVALID_ARG.
C8_NullListRejected ==
    (pc # "boot" /\ ~cfg.null /\ cfg.models_null /\ cfg.model_count > 0) =>
        initRet = ESP_ERR_INVALID_ARG

\* positions of the descriptors whose tag no case of build_models handles
UnhandledDescs == {j \in 1..Len(Descs) : Descs[j].type \notin HandledKinds}

Min(S) == CHOOSE x \in S : \A y \in S : x <= y

\* C9: when the list holds a descriptor of an unhandled kind, the build
\* fails, the first such descriptor and everything after it is not
\* registered, and unless an allocation failed before it was reached the
\* error is ESP_ERR_INVALID_ARG and exactly the descriptors before it are
\* registered.
C9_UnknownKindRejected ==
    (BuildCalled /\ UnhandledDescs # {}) =>
        LET k == Min(UnhandledDescs) IN
        /\ pc = "failed"
        /\ registered_model_count < k
        /\ \A j \in 1..registered_model_count : model_registry[j].type \in HandledKinds
        /\ initRet = IF failAt = 0 THEN ESP_ERR_INVALID_ARG ELSE ESP_ERR_NO_MEM
        /\ failAt = 0 => registered_model_count = k - 1

C9_Witness ==
    /\ BuildCalled
    /\ cfg.model_count = 2
    /\ cfg.models[1].type = MESH_MODEL_TYPE_ONOFF
    /\ cfg.models[2].type = MESH_MODEL_TYPE_POWER_LEVEL
    /\ initRet = ESP_ERR_INVALID_ARG
    /\ registered_model_count = 1

\* the heap node_init builds from cfg when every calloc succeeds: its n-th
\* block is what the n-th calloc call of node_init allocates
PlannedHeap == node_init(B0(0, "benign"), cfg, "ok").b.heap
PlannedRegistry == node_init(B0(0, "benign"), cfg, "ok").b.reg

SensorStages == {"sensor_model_state_t", "sensor_states", "sensor_bufs",
                 "sensor_buf", "sensor_pub_msg", "sensor_setup_msg"}

\* the block the failed calloc call would have returned
FailedBlock ==
    IF pc = "failed" /\ failAt > 0 THEN PlannedHeap[failAt] ELSE Block("none", 0, NULL)

\* C10: when an allocation of init_sensor_model fails for descriptor k,
\* node_init returns ESP_ERR_NO_MEM, descriptor k is not registered, every
\* block allocated for k was freed exactly once, no block was freed twice,
\* and the blocks and registry entries of the descriptors before k are
\* what a build without the failure leaves there.
C10_SensorRollback ==
    LET fb == FailedBlock
        k  == fb.owner
        ph == PlannedHeap
        pr == PlannedRegistry
    IN  fb.tag \in SensorStages =>
            /\ initRet = ESP_ERR_NO_MEM
            /\ registered_model_count = k - 1
            /\ \A p \in 1..Len(heap) :
                  /\ heap[p].frees <= 1
                  /\ heap[p].owner = k => heap[p].frees = 1
                  /\ heap[p].owner \in 1..(k - 1) => heap[p] = ph[p]
            /\ Cardinality({p \in 1..Len(heap) : heap[p].owner = k})
                 = Cardinality({p \in 1..(failAt - 1) : ph[p].owner = k})
            /\ \A j \in 1..(k - 1) : model_registry[j] = pr[j]

C10_Witness ==
    /\ FailedBlock.tag = "sensor_setup_msg"
    /\ FailedBlock.owner = 2
    /\ cfg.models[2].enable_publication
    /\ Len(cfg.models[2].sensors) = 2
    /\ cfg.models[1].type = MESH_MODEL_TYPE_SENSOR
    /\ Cardinality({p \in 1..Len(heap) : heap[p].owner = 2 /\ heap[p].frees = 1}) = 6
    /\ Cardinality({p \in 1..Len(heap) : heap[p].owner = 1 /\ heap[p].frees = 0}) >= 5

(***************************************************************************)
(* Properties of the runtime API.                                          *)
(***************************************************************************)
\* the kind each by-kind-and-index accessor works on
KindOfOp ==
    [get_onoff |-> MESH_MODEL_TYPE_ONOFF, set_onoff |-> MESH_MODEL_TYPE_ONOFF,
     publish_onoff |-> MESH_MODEL_TYPE_ONOFF,
     get_level |-> MESH_MODEL_TYPE_LEVEL, set_level |-> MESH_MODEL_TYPE_LEVEL,
     publish_level |-> MESH_MODEL_TYPE_LEVEL,
     read_sensor |-> MESH_MODEL_TYPE_SENSOR, publish_sensor |-> MESH_MODEL_TYPE_SENSOR,
     send_vendor |-> MESH_MODEL_TYPE_VENDOR, publish_vendor |-> MESH_MODEL_TYPE_VENDOR,
     get_battery |-> MESH_MODEL_TYPE_BATTERY, set_battery |-> MESH_MODEL_TYPE_BATTERY,
     publish_battery |-> MESH_MODEL_TYPE_BATTERY]

AccessorOps == DOMAIN KindOfOp

\* the runtime state the last accessor call was aimed at, NULL if none
Target(o) == IF o.op \in AccessorOps THEN find(KindOfOp[o.op], o.args[1]) ELSE NULL

\* the last call was op on a registered instance whose publish address is
\* the unassigned sentinel
UnassignedPublish(op) ==
    /\ last.op = op
    /\ Target(last) # NULL
    /\ heap[Target(last)].val.pub_addr = ESP_BLE_MESH_ADDR_UNASSIGNED

\* every (kind, index) resolves to the state of the index-th descriptor of
\* the kind
ResolvesInOrder ==
    \A k \in HandledKinds, i \in Indexes :
        LET P == DescsOfKind(k)
            st == find(k, i)
        IN IF i >= Cardinality(P) THEN st = NULL
           ELSE \E j \in P : /\ Cardinality({x \in P : x < j}) = i
                             /\ st = model_registry[j].runtime_state
                             /\ Live(heap, st)
                             /\ heap[st].owner = j

\* C3: after a successful build, in every state the API calls and stack
\* events lead to, find(kind, i) is the live state of the i-th descriptor
\* of the kind (A at index 0 and B at index 1 for switches A, B), and no
\* step changes the registry entries or registered_model_count, the only
\* things find reads.
C3_IndexStable ==
    /\ [](pc = "ready" => ResolvesInOrder)
    /\ [][pc = "ready" =>
            /\ registered_model_count' = registered_model_count
            /\ model_registry' = model_registry]_vars

C3_Witness ==
    /\ pc = "ready"
    /\ cfg.model_count = 2
    /\ cfg.models[1].type = MESH_MODEL_TYPE_ONOFF
    /\ cfg.models[2].type = MESH_MODEL_TYPE_ONOFF
    /\ last.op = "set_onoff" /\ last.args[1] = 1 /\ last.ret = ESP_OK
    /\ heap[find_onoff_model(0)].val.user_data = 1
    /\ heap[find_onoff_model(1)].val.user_data = 2
    /\ heap[find_onoff_model(1)].val.onoff # heap[find_onoff_model(0)].val.onoff

\* C4 (as claimed): mesh_model_publish_onoff, _level, _sensor and _vendor on
\* a registered instance whose publish address is unassigned return
\* ESP_ERR_INVALID_STATE and make no send call.
C4_UnassignedInvalidState ==
    \A op \in {"publish_onoff", "publish_level", "publish_sensor", "publish_vendor"} :
        UnassignedPublish(op) => last.ret = ESP_ERR_INVALID_STATE /\ last.sends = <<>>

\* C4: mesh_model_publish_onoff, _level and _vendor on a registered instance
\* whose publish address is unassigned return ESP_ERR_INVALID_STATE and
\* make no send call; mesh_model_publish_sensor makes no send call either
\* and returns ESP_ERR_NOT_FOUND when the property is not in the model's
\* list, the read callback's error when the read fails, and
\* ESP_ERR_INVALID_STATE otherwise.
C4_UnassignedNoSend ==
    /\ \A op \in {"publish_onoff", "publish_level", "publish_vendor"} :
          UnassignedPublish(op) => last.ret = ESP_ERR_INVALID_STATE /\ last.sends = <<>>
    /\ UnassignedPublish("publish_sensor") =>
          LET s == heap[Target(last)].val
              i == sensor_index(s.sensors, last.args[2], 0)
          IN /\ last.sends = <<>>
             /\ last.ret = IF i < 0 THEN ESP_ERR_NOT_FOUND
                           ELSE IF s.sensors[i + 1].read # "NULL" /\ last.inp.cbret # ESP_OK
                                THEN last.inp.cbret
                                ELSE ESP_ERR_INVALID_STATE

C4_Witness ==
    /\ UnassignedPublish("publish_sensor")
    /\ last.cbs # <<>>
    /\ last.inp.cbret = ESP_OK
    /\ last.ret = ESP_ERR_INVALID_STATE
    /\ last.sends = <<>>

\* C5 (as claimed): mesh_model_publish_battery on a registered battery
\* model whose publish address is unassigned returns ESP_ERR_INVALID_STATE
\* and makes no send call.
C5_BatteryChecksUnassigned ==
    UnassignedPublish("publish_battery") =>
        last.ret = ESP_ERR_INVALID_STATE /\ last.sends = <<>>

\* the call sent a status to the unassigned address
C5_Witness ==
    /\ UnassignedPublish("publish_battery")
    /\ Len(last.sends) = 1
    /\ last.sends[1].addr = ESP_BLE_MESH_ADDR_UNASSIGNED
    /\ last.ret = ESP_OK

\* the answer of an accessor that did not find its instance
NotFoundAnswer(o) ==
    CASE o.op = "get_onoff" -> o.val = -1
      [] o.op = "get_level" -> o.val = -32768
      [] o.op = "get_battery" -> o.val = 0
      [] OTHER -> o.ret = ESP_ERR_NOT_FOUND

\* C6: a get/set/publish/read/send accessor called with an index at which
\* no instance of its kind is registered answers not-found, leaves every
\* runtime state as it was, invokes no user callback and makes no send
\* call.
C6_UnregisteredNotFound ==
    [][(last'.op \in AccessorOps /\ Target(last') = NULL) =>
            /\ NotFoundAnswer(last')
            /\ heap' = heap
            /\ pc' = pc
            /\ last'.cbs = <<>>
            /\ last'.sends = <<>>]_vars

C6_Witness ==
    /\ pc = "ready"
    /\ find_battery_model(0) # NULL
    /\ find_battery_model(1) # NULL
    /\ last.op = "set_battery" /\ last.args[1] = 2
    /\ Target(last) = NULL
    /\ last.ret = ESP_ERR_NOT_FOUND
    /\ heap[find_battery_model(0)].val.battery_level = 0

(***************************************************************************)
(* Failure of the build inside node_init.                                  *)
(***************************************************************************)
\* node_init got past its argument check and one of its calloc calls returned
\* NULL, or a descriptor of a kind build_models has no case for was placed
BuildError ==
    /\ pc \notin {"boot", "crashed"}
    /\ ~cfg.null
    /\ (failAt > 0 \/ UnhandledDescs # {})

\* C11: when build_models or build_element fails inside node_init, node_init
\* returns that error, the composition is not handed to esp_ble_mesh_init,
\* and app_main parks without calling node_start.
C11_BuildErrorAborts ==
    BuildError =>
        /\ pc = "failed"
        /\ initRet = (IF failAt > 0 THEN ESP_ERR_NO_MEM ELSE ESP_ERR_INVALID_ARG)
        /\ stackComp = NoComp
        /\ started = "no"
        /\ ~ENABLED NodeStart

\* build_models succeeded with a sensor model and the calloc of build_element
\* then failed
C11_Witness ==
    /\ BuildError
    /\ failAt = AllocCalls(cfg)
    /\ logmsg = "Failed to build element"
    /\ registered_model_count > 0
    /\ dynamic_sig_models # NULL
    /\ elements = NULL
    /\ initRet = ESP_ERR_NO_MEM

\* the 1-based position of the descriptor whose construction failed (0: none):
\* the owner of the block the failed calloc was for, else the first descriptor
\* of a kind without a case
FailedDesc ==
    IF pc = "failed" /\ BuildCalled
    THEN IF failAt > 0 THEN FailedBlock.owner
         ELSE IF UnhandledDescs # {} THEN Min(UnhandledDescs) ELSE 0
    ELSE 0

\* C12: when the construction of descriptor k (1-based) fails, the registered
\* count is k - 1, the entries before k hold the kind, runtime state and
\* composition slot a build without the failure gives them, the model arrays
\* are still allocated, nothing was allocated or registered for a later
\* descriptor, and no allocation was made after the failed one.
C12_BuildStopsAtFailure ==
    LET k  == FailedDesc
        ph == PlannedHeap
        pr == PlannedRegistry
    IN  k > 0 =>
            /\ registered_model_count = k - 1
            /\ Len(model_registry) = k
            /\ \A j \in 1..(k - 1) :
                  /\ model_registry[j] = pr[j]
                  /\ model_registry[j].type = Descs[j].type
                  /\ model_registry[j].runtime_state # NULL
                  /\ heap[model_registry[j].runtime_state]
                       = ph[model_registry[j].runtime_state]
                  /\ model_registry[j].esp_model.blk
                       \in {dynamic_sig_models, dynamic_vnd_models} \ {NULL}
                  /\ heap[model_registry[j].esp_model.blk].val[model_registry[j].esp_model.idx + 1]
                       = ph[model_registry[j].esp_model.blk].val[model_registry[j].esp_model.idx + 1]
            /\ dynamic_sig_models # NULL /\ heap[dynamic_sig_models].frees = 0
            /\ vnd_model_count > 0 =>
                  dynamic_vnd_models # NULL /\ heap[dynamic_vnd_models].frees = 0
            /\ \A p \in 1..Len(heap) :
                  /\ heap[p].owner <= k
                  /\ heap[p].owner < k => heap[p].frees = 0
            /\ failAt > 0 => Len(heap) = failAt - 1
            /\ initRet # ESP_OK /\ stackComp = NoComp

\* the second of two descriptors fails after a sensor model with publication
\* was registered
C12_Witness ==
    /\ FailedDesc = 2
    /\ failAt > 0
    /\ cfg.model_count = 2
    /\ cfg.models[1].type = MESH_MODEL_TYPE_SENSOR
    /\ cfg.models[2].type = MESH_MODEL_TYPE_VENDOR
    /\ registered_model_count = 1
    /\ model_registry[1].esp_model = SlotRef(dynamic_sig_models, 1)
    /\ heap[dynamic_vnd_models].frees = 0

(***************************************************************************)
(* Status payloads.                                                        *)
(***************************************************************************)
\* the int32_t whose little-endian two's complement bytes are d
Int32Of(d) ==
    d[1] + 256 * d[2] + 65536 * d[3]
    + 16777216 * (IF d[4] >= 128 THEN d[4] - 256 ELSE d[4])

\* the sensor entry a publish_sensor call with these arguments resolves to
\* (NULL: none), and whether its value was read
SensorTarget == find_sensor_model(last.args[1])

SensorPublished ==
    /\ last.op = "publish_sensor"
    /\ SensorTarget # NULL
    /\ sensor_index(heap[SensorTarget].val.sensors, last.args[2], 0) >= 0
    /\ heap[SensorTarget].val.pub_addr # ESP_BLE_MESH_ADDR_UNASSIGNED
    /\ last.cbs # <<>> => last.inp.cbret = ESP_OK

\* C13: a publish of property 0x5001 on a sensor model with a bound address
\* hands the stack exactly one message of 7 bytes: 0x09, 0x01, 0x50, then the
\* value the read callback stored, little-endian; and no other publish of
\* that property sends anything.
C13_SensorStatusPayload ==
    (last.op = "publish_sensor" /\ last.args[2] = 20481) =>
        IF SensorPublished
        THEN /\ Len(last.sends) = 1
             /\ last.sends[1].opcode = OP_SENSOR_STATUS
             /\ last.sends[1].len = 7
             /\ Len(last.sends[1].data) = 7
             /\ SubSeq(last.sends[1].data, 1, 3) = <<9, 1, 80>>
             /\ \A n \in 4..7 : last.sends[1].data[n] \in 0..255
             /\ Int32Of(SubSeq(last.sends[1].data, 4, 7))
                  = (IF last.cbs # <<>> THEN last.inp.cbval ELSE 0)
        ELSE last.sends = <<>>

\* a publish of -1 as 09 01 50 FF FF FF FF
C13_Witness ==
    /\ SensorPublished
    /\ last.args[2] = 20481
    /\ last.inp.cbval = -1
    /\ last.cbs # <<>>
    /\ last.sends[1].data = <<9, 1, 80, 255, 255, 255, 255>>
    /\ last.ret = ESP_OK

\* C14: a sensor status for a property id up to 0x07FF carries the 2-byte
\* marshalled id (format bit 0, 2 + 4 bytes in all), and one for a larger id
\* carries the header (4 << 1) | 1 and the 3-byte form (7 bytes in all).
C14_FormByThreshold ==
    (last.op = "publish_sensor" /\ last.sends # <<>>) =>
        IF last.args[2] <= 2047
        THEN /\ last.sends[1].data[1] % 2 = 0
             /\ last.sends[1].len = 2 + 4
        ELSE /\ last.sends[1].data[1] = 9
             /\ last.sends[1].len = 3 + 4

\* SENSOR_TEMPERATURE (0x004F) published in the 3-byte form
C14_Witness ==
    /\ SensorPublished
    /\ last.args[2] = 79
    /\ last.sends[1].data = <<9, 79, 0, 0, 0, 0, 0>>

\* what a receiver reads from a switch status and from a dimmer status
DecodeU8(d) == d[1]
DecodeS16(d) ==
    IF d[1] + 256 * d[2] >= 32768 THEN d[1] + 256 * d[2] - 65536 ELSE d[1] + 256 * d[2]

\* C15: every switch status sent is one byte that decodes to the published
\* value, and every dimmer status sent is two bytes that decode, little-endian
\* and signed, to the published level.
C15_CodecRoundTrip ==
    /\ (last.op = "publish_onoff" /\ last.sends # <<>>) =>
          /\ last.sends[1].len = 1
          /\ Len(last.sends[1].data) = 1
          /\ last.sends[1].data[1] \in 0..255
          /\ DecodeU8(last.sends[1].data) = last.args[2]
    /\ (last.op = "publish_level" /\ last.sends # <<>>) =>
          /\ last.sends[1].len = 2
          /\ Len(last.sends[1].data) = 2
          /\ \A n \in 1..2 : last.sends[1].data[n] \in 0..255
          /\ DecodeS16(last.sends[1].data) = last.args[2]
    /\ (last.op \in {"publish_onoff", "publish_level"} /\ pc = "ready") =>
          Len(last.sends) = 1

\* level -32768 sent as 00 80
C15_Witness ==
    /\ last.op = "publish_level"
    /\ last.args[2] = -32768
    /\ last.sends # <<>>
    /\ last.sends[1].data = <<0, 128>>
    /\ last.ret = ESP_OK

\* a byte of the compact payload read as int8_t
S8(x) == IF x >= 128 THEN x - 256 ELSE x

\* C16: publish_imu_data hands mesh_model_send_vendor 8 bytes for every
\* input: the 16-bit timestamp, then six bytes; an accelerometer axis at
\* +1500 / -1500 is sent as +15 / -15 and a gyroscope axis at +250 / -250 as
\* +25 / -25.
C16_CompactEncoding ==
    last.op = "publish_imu_data" =>
        /\ Len(last.sends) = 1
        /\ last.sends[1].opcode = VENDOR_MODEL_OP_IMU_DATA
        /\ last.sends[1].len = 8
        /\ Len(last.sends[1].data) = 8
        /\ \A n \in 1..8 : last.sends[1].data[n] \in 0..255
        /\ last.sends[1].data[1] + 256 * last.sends[1].data[2]
             = (last.args[1] \div 1000) % 65536
        /\ \A n \in 1..3 :
              LET a == <<app.accel_x, app.accel_y, app.accel_z>>[n]
                  g == <<app.gyro_x, app.gyro_y, app.gyro_z>>[n]
              IN  /\ a = 1500 => S8(last.sends[1].data[2 + n]) = 15
                  /\ a = -1500 => S8(last.sends[1].data[2 + n]) = -15
                  /\ g = 250 => S8(last.sends[1].data[5 + n]) = 25
                  /\ g = -250 => S8(last.sends[1].data[5 + n]) = -25

\* accel (1500, -1500, 1500) and gyro (-250, 250, -250) at 65537 ms
C16_Witness ==
    /\ last.op = "publish_imu_data"
    /\ app = Axes(1500, -1500, 1500, -250, 250, -250)
    /\ last.args[1] = 65537000
    /\ last.sends[1].data = <<1, 0, 15, 241, 15, 231, 25, 231>>

\* C17: the stored level of every battery model is in 0..100, and a battery
\* status is 8 bytes: a level in 0..100 or 0xFF, FF FF FF, FF FF FF, 00.
C17_BatteryInRange ==
    /\ \A i \in ModelIndexes :
          (pc = "ready" /\ find_battery_model(i) # NULL) =>
              heap[find_battery_model(i)].val.battery_level \in 0..100
    /\ (last.op = "publish_battery" /\ last.sends # <<>>) =>
          /\ last.sends[1].len = 8
          /\ last.sends[1].data[1] \in (0..100) \cup {255}
          /\ SubSeq(last.sends[1].data, 2, 8) = <<255, 255, 255, 255, 255, 255, 0>>

\* the callback answered ESP_OK with 200: 200 is stored and sent
C17_Witness ==
    /\ last.op = "publish_battery"
    /\ last.inp.cbret = ESP_OK
    /\ last.inp.cbval = 200
    /\ last.sends # <<>>
    /\ last.sends[1].data = <<200, 255, 255, 255, 255, 255, 255, 0>>
    /\ heap[find_battery_model(last.args[1])].val.battery_level = 200

\* C18: the stored value of every switch is 0 or 1, and the byte of every
\* switch status sent is 0 or 1.
C18_SwitchBoolean ==
    /\ \A i \in ModelIndexes :
          (pc = "ready" /\ find_onoff_model(i) # NULL) =>
              heap[find_onoff_model(i)].val.onoff \in {0, 1}
    /\ (last.op \in {"set_onoff", "publish_onoff", "node_set_onoff_state"}
         /\ last.sends # <<>>) =>
          /\ last.sends[1].len = 1
          /\ last.sends[1].data[1] \in {0, 1}

\* mesh_model_set_onoff(i, 2, true) stored 2 and sent 02
C18_Witness ==
    /\ last.op = "set_onoff"
    /\ last.args[2] = 2
    /\ last.sends # <<>>
    /\ last.sends[1].data = <<2>>
    /\ heap[find_onoff_model(last.args[1])].val.onoff = 2
    /\ heap[find_onoff_model(last.args[1])].val.srv_onoff = 2

(***************************************************************************)
(* Dispatch of inbound events.                                             *)
(***************************************************************************)
\* C19: an inbound switch (dimmer) set event, whichever slot received it,
\* stores the value in the first registered switch (dimmer) and calls its
\* callback in the same step; every other block of the heap, so the state of
\* every other instance of any kind, is left as it was.
C19_FirstInstanceOnly ==
    [][last'.op \in {"evt_onoff_set", "evt_level_set"} =>
          LET st == IF last'.op = "evt_onoff_set" THEN find_onoff_model(0)
                    ELSE find_level_model(0)
              v  == last'.args[3]
          IN  IF st = NULL THEN heap' = heap /\ last'.cbs = <<>>
              ELSE /\ Len(heap') = Len(heap)
                   /\ \A p \in (1..Len(heap)) \ {st} : heap'[p] = heap[p]
                   /\ IF last'.op = "evt_onoff_set"
                      THEN heap'[st].val.onoff = v ELSE heap'[st].val.level = v
                   /\ last'.cbs = Calls(heap[st].val.callback, v, heap[st].val.user_data)
      ]_vars

\* a switch set carrying 2 received by the second switch's slot: the first
\* switch holds 2 and its callback ran, the second still holds 1
C19_Witness ==
    /\ last.op = "evt_onoff_set"
    /\ last.args = <<dynamic_sig_models, 2, 2>>
    /\ find_onoff_model(1) # NULL
    /\ heap[find_onoff_model(0)].val.onoff = 2
    /\ heap[find_onoff_model(1)].val.onoff = 1
    /\ ModelAt(heap, SlotRef(dynamic_sig_models, 2)).user_data = find_onoff_model(1)
    /\ Len(last.cbs) = 1

\* the vendor registry entries whose composition slot is m
VendorEntriesAt(m) ==
    {j \in 1..registered_model_count :
        /\ model_registry[j].type = MESH_MODEL_TYPE_VENDOR
        /\ model_registry[j].esp_model = m}

\* C20: an inbound vendor operation on model record m calls, once, the
\* handler of the vendor entry whose composition slot is m, with the event's
\* opcode and that entry's user context, and calls no other handler; when no
\* vendor entry has slot m, or that entry has no handler, nothing is called.
C20_VendorDispatchBySlot ==
    last.op = "evt_vendor_op" =>
        LET E == VendorEntriesAt(SlotRef(last.args[1], last.args[2])) IN
        /\ Cardinality(E) <= 1
        /\ \A j \in E :
              LET d == model_registry[j].user_config IN
              last.cbs = IF d.callback # "NULL"
                         THEN <<CbCall(d.callback, last.args[3], d.user_data)>>
                         ELSE <<>>
        /\ E = {} => last.cbs = <<>>

\* three vendor models: an operation on the slot of the third calls the
\* third's handler with the third's context
C20_Witness ==
    /\ last.op = "evt_vendor_op"
    /\ vnd_model_count = 3
    /\ last.args = <<dynamic_vnd_models, 2, VENDOR_MODEL_OP_IMU_DATA + 1>>
    /\ VendorEntriesAt(SlotRef(dynamic_vnd_models, 2)) = {3}
    /\ last.cbs = <<CbCall("cb", VENDOR_MODEL_OP_IMU_DATA + 1, 3)>>
    /\ model_registry[1].user_config.callback = "cb"

\* the last step delivered an event that found no instance to serve: a
\* switch or dimmer set with no model of the kind, a sensor get with no
\* sensor model, a vendor operation on a slot that no vendor entry holds or
\* whose entry has no handler
MissedEvent ==
    \/ last.op = "evt_onoff_set" /\ find_onoff_model(0) = NULL
    \/ last.op = "evt_level_set" /\ find_level_model(0) = NULL
    \/ last.op = "evt_sensor" /\ find_sensor_model(0) = NULL
    \/ /\ last.op = "evt_vendor_op"
       /\ \A j \in VendorEntriesAt(SlotRef(last.args[1], last.args[2])) :
             model_registry[j].user_config.callback = "NULL"

\* C21: an event that finds no instance to serve leaves the heap as it was,
\* calls no user callback, makes no send call and returns.
C21_LookupMissHarmless ==
    [][MissedEvent' =>
          /\ heap' = heap
          /\ last'.cbs = <<>>
          /\ last'.sends = <<>>
          /\ pc' = "ready"
      ]_vars

\* a switch set delivered to a node that registered two dimmers and no switch
C21_Witness ==
    /\ last.op = "evt_onoff_set"
    /\ find_onoff_model(0) = NULL
    /\ find_level_model(1) # NULL
    /\ pc = "ready"
    /\ last.cbs = <<>>

(***************************************************************************)
(* Ordering of the calls on one switch or dimmer.                          *)
(***************************************************************************)
\* what a get on the instance the last call addressed returns now
GetAfter ==
    IF last.op \in {"set_onoff", "publish_onoff"}
    THEN mesh_model_get_onoff(heap, last.args[1]).val
    ELSE mesh_model_get_level(heap, last.args[1]).val

\* the last call was a set or publish on a registered switch or dimmer, and
\* it returned
WroteValue ==
    /\ last.op \in {"set_onoff", "publish_onoff", "set_level", "publish_level"}
    /\ Target(last) # NULL
    /\ pc = "ready"

\* C22 as stated: after a set or publish call on a registered switch or
\* dimmer, a get returns the value passed to that call.
C22_LastCallWins == WroteValue => GetAfter = last.args[2]

\* C22: after a set call, and after a publish call on an instance whose
\* publish address is assigned, a get returns the value passed to that call;
\* a publish call on an instance with the unassigned address leaves the
\* value a get returns as it was.
C22_LastWriteWins ==
    /\ []((WroteValue /\ last.op \in {"set_onoff", "set_level"}) =>
             GetAfter = last.args[2])
    /\ []((WroteValue /\ last.op \in {"publish_onoff", "publish_level"}
           /\ heap[Target(last)].val.pub_addr # ESP_BLE_MESH_ADDR_UNASSIGNED) =>
             GetAfter = last.args[2])
    /\ [][(last'.op \in {"publish_onoff", "publish_level"}
           /\ last'.ret = ESP_ERR_INVALID_STATE) => heap' = heap]_vars

\* a set with publish on a switch whose address is unassigned: the value is
\* stored although the call returned InvalidState
C22_Witness ==
    /\ WroteValue
    /\ last.op = "set_onoff"
    /\ last.args = <<1, 2, 1>>
    /\ last.ret = ESP_ERR_INVALID_STATE
    /\ GetAfter = 2

(***************************************************************************)
(* Two tasks on one instance.                                              *)
(***************************************************************************)
\* the stored value, the server's present value and the server's target
\* value of the instance the two tasks work on
RaceFields ==
    LET v == heap[RaceTarget(tasks.kind)].val IN
    <<v[FieldOf(tasks.kind, "value")], v[FieldOf(tasks.kind, "present")],
      v[FieldOf(tasks.kind, "target")]>>

\* neither task is inside its operation
BothOutside ==
    /\ tasks.app_done \in {0, Len(AppStmts(tasks.app_op))}
    /\ tasks.stack_done \in {0, Len(StackStmts)}

\* C23: when the handler of an inbound set and an application set or
\* publish on the same instance do not interleave, the stored value, the
\* server's present value and the server's target value are equal after
\* each of them (when they interleave they need not be: C23_Witness).
C23_SerialFieldsEqual ==
    (BothOutside /\ ~tasks.overlap) =>
        /\ RaceFields[1] = RaceFields[2]
        /\ RaceFields[2] = RaceFields[3]

\* both have completed, the application published b, and the instance is
\* left with stored value a, present value b and target value a
C23_Witness ==
    /\ tasks.app_done = Len(AppStmts(tasks.app_op))
    /\ tasks.stack_done = Len(StackStmts)
    /\ tasks.overlap
    /\ tasks.a # tasks.b
    /\ RaceFields = <<tasks.a, tasks.b, tasks.a>>
    /\ tasks.sent = <<tasks.b>>

(***************************************************************************)
(* The composition handed to the stack.                                    *)
(***************************************************************************)
\* the element record of the composition handed to esp_ble_mesh_init
StackElement == heap[stackComp.elements].val

\* the registry entries written by the build
RegistryEntries == 1..Min({registered_model_count, Len(model_registry)})

\* C24: in every composition handed to the mesh stack, slot 0 of the SIG
\* model array is the Configuration Server, without publication context
\* or user data, and no registry entry and no runtime state refers to SIG
\* slot 0, whatever the descriptor list (empty and NULL lists included).
C24_ConfigServerInSlotZero ==
    stackComp # NoComp =>
        /\ StackElement.sig_models # NULL
        /\ StackElement.sig_model_count >= 1
        /\ ModelAt(heap, SlotRef(StackElement.sig_models, 0))
               = ModelRec("CFG_SRV", NoPub, NULL)
        /\ \A k \in RegistryEntries :
               model_registry[k].esp_model # SlotRef(StackElement.sig_models, 0)

\* a composition built from a list whose first descriptor takes a SIG slot
C24_Witness ==
    /\ stackComp # NoComp
    /\ BuildCalled
    /\ registered_model_count >= 2
    /\ model_registry[1].esp_model = SlotRef(StackElement.sig_models, 1)
    /\ ModelAt(heap, SlotRef(StackElement.sig_models, 0)).model_id = "CFG_SRV"

(***************************************************************************)
(* The two records of a sensor descriptor.                                 *)
(***************************************************************************)
\* the registry entries of sensor descriptors that were built and counted
BuiltSensors ==
    {k \in RegistryEntries : model_registry[k].type = MESH_MODEL_TYPE_SENSOR}

\* C25: for every sensor descriptor that was built, with publication
\* enabled or not: the setup publication buffer is allocated and live, the
\* registry entry refers to the Sensor Server record, the slot after it
\* holds the Sensor Setup Server record with the setup publication
\* context, and the Sensor Server record has a publication context exactly
\* when the descriptor enables publication.
C25_SensorSetupCompanion ==
    pc \in {"ready", "failed"} =>
        \A k \in BuiltSensors :
            LET e  == model_registry[k]
                st == e.runtime_state
            IN /\ st # NULL
               /\ Live(heap, heap[st].val.setup_pub_msg)
               /\ heap[heap[st].val.setup_pub_msg].tag = "sensor_setup_msg"
               /\ e.esp_model.blk = dynamic_sig_models
               /\ e.esp_model.idx >= 1
               /\ heap[st].val.esp_model = e.esp_model
               /\ ModelAt(heap, e.esp_model)
                      = ModelRec("SENSOR_SRV",
                                 IF e.user_config.enable_publication
                                 THEN PubRef(st, "pub") ELSE NoPub, st)
               /\ ModelAt(heap, SlotRef(e.esp_model.blk, e.esp_model.idx + 1))
                      = ModelRec("SENSOR_SETUP_SRV", PubRef(st, "setup_pub"), st)
               /\ (heap[st].val.pub_msg # NULL) = e.user_config.enable_publication

\* a sensor built with publication disabled, after another descriptor
C25_Witness ==
    /\ pc = "ready"
    /\ \E k \in BuiltSensors :
           /\ ~model_registry[k].user_config.enable_publication
           /\ model_registry[k].esp_model.idx = 2
           /\ ModelAt(heap, SlotRef(dynamic_sig_models, 3)).pub
                  = PubRef(model_registry[k].runtime_state, "setup_pub")
           /\ ModelAt(heap, SlotRef(dynamic_sig_models, 2)).pub = NoPub

(***************************************************************************)
(* The legacy pair.                                                        *)
(***************************************************************************)
\* the call just made had the return value and the effect on the state,
\* the callbacks and the send calls of r
SameAs(r) ==
    /\ heap' = r.heap
    /\ last'.ret = r.ret
    /\ last'.sends = r.sends
    /\ last'.cbs = r.cbs
    /\ (pc' = "crashed") = r.crashed

\* C26: node_get_onoff_state() returns what mesh_model_get_onoff(0) returns
\* when a switch is registered and 0xFF when none is, and changes nothing;
\* node_set_onoff_state(v) has the return value and the effect on state,
\* callback and send calls of mesh_model_set_onoff(0, v, true).
C26_LegacyPairIsIndexZero ==
    [][/\ last'.op = "node_get_onoff_state" =>
            /\ heap' = heap
            /\ last'.val = IF find_onoff_model(0) # NULL
                            THEN mesh_model_get_onoff(heap, 0).val ELSE 255
       /\ last'.op = "node_set_onoff_state" =>
            \E ub \in UBChoices :
                SameAs(mesh_model_set_onoff(heap, 0, last'.args[1], TRUE,
                                            last'.inp.send, ub))]_vars

\* node_set_onoff_state(1) on a registered switch with a change callback and
\* a publish address: the callback ran and the value was sent
C26_Witness ==
    /\ last.op = "node_set_onoff_state"
    /\ last.args = <<1>>
    /\ last.ret = ESP_OK
    /\ Len(last.cbs) = 1
    /\ Len(last.sends) = 1
    /\ last.sends[1].data = <<1>>
    /\ node_get_onoff_state(heap).val = 1

(***************************************************************************)
(* Publishing on an instance built without publication.                    *)
(***************************************************************************)
PublishOps == {"publish_onoff", "publish_level", "publish_sensor",
               "publish_battery", "publish_vendor"}

\* the last call was a publish on a registered instance whose model record
\* carries no publication context
PublishWithoutContext ==
    /\ last.op \in PublishOps
    /\ Target(last) # NULL
    /\ ModelAt(heap, heap[Target(last)].val.esp_model).pub = NoPub

\* C27: a publish call of any kind on a registered instance built with
\* publication disabled returns InvalidState, makes no send call and does
\* not fault.
C27_PublishDisabledInvalidState ==
    PublishWithoutContext =>
        /\ last.ret = ESP_ERR_INVALID_STATE
        /\ last.sends = <<>>
        /\ pc # "crashed"

\* mesh_model_publish_battery on the battery built with publication
\* disabled: the program stops at state->esp_model->pub->msg
C27_Witness ==
    /\ PublishWithoutContext
    /\ last.op = "publish_battery"
    /\ pc = "crashed"
    /\ last.ret = "none"

(***************************************************************************)
(* The publication buffers.                                                *)
(***************************************************************************)
\* the last call was a publish of a kind with a publication buffer of its
\* own, on an instance built with publication, and it got to the buffer
PublishedFromBuffer ==
    /\ last.op \in {"publish_onoff", "publish_level", "publish_sensor", "publish_battery"}
    /\ Target(last) # NULL
    /\ ModelAt(heap, heap[Target(last)].val.esp_model).pub # NoPub
    /\ (last.sends # <<>> \/ pc = "crashed")

\* bytes of one status of the kind
PayloadLen ==
    [publish_onoff |-> 1, publish_level |-> 2, publish_sensor |-> 7, publish_battery |-> 8]

\* C28: for an instance built with publication, the buffer a publish
\* writes is the one created during the build and is live at the publish
\* (not freed, not out of its storage lifetime); after the publish it
\* holds one payload of the kind, within its capacity, and what was sent
\* is that payload.
C28_BufferLiveAndReused ==
    PublishedFromBuffer =>
        /\ pc # "crashed"
        /\ Len(last.sends) = 1
        /\ last.sends[1].len = PayloadLen[last.op]
        /\ IF last.op = "publish_sensor"
           THEN LET msg == heap[Target(last)].val.pub_msg IN
                /\ Live(heap, msg)
                /\ heap[msg].tag = "sensor_pub_msg"
                /\ heap[msg].val.len = PayloadLen[last.op]
                /\ heap[msg].val.len <= heap[msg].val.size
           ELSE heap[Target(last)].val.pub_msg # LITERAL_BUF

\* mesh_model_publish_onoff on a switch built with publication and bound
\* to a publish address: pub.msg still points at the NET_BUF_SIMPLE literal
\* of init_onoff_model, and the write through it stopped the program
C28_Witness ==
    /\ PublishedFromBuffer
    /\ last.op = "publish_onoff"
    /\ heap[Target(last)].val.pub_msg = LITERAL_BUF
    /\ heap[Target(last)].val.pub_addr # ESP_BLE_MESH_ADDR_UNASSIGNED
    /\ pc = "crashed"

(***************************************************************************)
(* Send failures.                                                          *)
(***************************************************************************)
\* C29: every accessor makes at most one send call per invocation, and
\* when it made one it returns what the send call returned: an error of
\* the send call is the accessor's return value and no second send call
\* follows.
C29_SendOnceReturnItsError ==
    (last.op \in AccessorOps \cup {"node_set_onoff_state"}) =>
        /\ Len(last.sends) <= 1
        /\ Len(last.sends) = 1 => last.ret = last.inp.send

\* mesh_model_send_vendor whose send call failed
C29_Witness ==
    /\ last.op = "send_vendor"
    /\ Len(last.sends) = 1
    /\ last.inp.send = "ESP_FAIL"
    /\ last.ret = "ESP_FAIL"

(***************************************************************************)
(* The not-found values of the get accessors.                              *)
(***************************************************************************)
GetOps == {"get_onoff", "get_level", "get_battery"}

\* C30 as stated: a get accessor returns its not-found value (-1, INT16_MIN,
\* 0) exactly when no instance is registered at the index.
C30_NotFoundValueUnambiguous ==
    last.op \in GetOps => (NotFoundAnswer(last) <=> Target(last) = NULL)

\* C30 as the code has it: a get accessor called for an unregistered index
\* returns -1 (mesh_model_get_onoff), INT16_MIN (mesh_model_get_level) or 0
\* (mesh_model_get_battery); for a registered instance it returns the
\* stored value, which for a switch is in 0..255 and so differs from -1,
\* while a dimmer holding -32768 and a battery holding 0 return the
\* not-found value of their accessor.
C30_NotFoundValues ==
    last.op \in GetOps =>
        IF Target(last) = NULL THEN NotFoundAnswer(last)
        ELSE CASE last.op = "get_onoff" ->
                      /\ last.val = heap[Target(last)].val.onoff
                      /\ last.val \in 0..255
                      /\ ~NotFoundAnswer(last)
               [] last.op = "get_level" ->
                      /\ last.val = heap[Target(last)].val.level
                      /\ last.val \in -32768..32767
               [] OTHER ->
                      /\ last.val = heap[Target(last)].val.battery_level
                      /\ last.val \in 0..255

\* mesh_model_get_level on a registered dimmer that holds -32768
C30_Witness ==
    /\ last.op = "get_level"
    /\ Target(last) # NULL
    /\ heap[Target(last)].val.level = -32768
    /\ last.val = -32768

(***************************************************************************)
(* The placement pass.                                                     *)
(***************************************************************************)
\* both arrays were allocated, so the placement pass of build_models ran
PlacementRan ==
    /\ BuildCalled
    /\ pc \in {"ready", "failed"}
    /\ Live(heap, dynamic_sig_models)
    /\ vnd_model_count > 0 => Live(heap, dynamic_vnd_models)

\* the 0-based slots of a model array that hold a record
WrittenSlots(arr) ==
    IF arr = NULL THEN {}
    ELSE {k \in 0..(Len(heap[arr].val) - 1) : heap[arr].val[k + 1] # ZeroModel}

\* the SIG and vendor slots the counted registry entries account for
SlotsOfEntries ==
    LET K(t) == Cardinality({k \in RegistryEntries : model_registry[k].type = t}) IN
    [sig |-> 1 + (Cardinality(RegistryEntries) - K(MESH_MODEL_TYPE_VENDOR))
               + K(MESH_MODEL_TYPE_SENSOR),
     vnd |-> K(MESH_MODEL_TYPE_VENDOR)]

PlacementExact ==
    PlacementRan =>
        /\ sig_slot >= 1
        /\ Len(heap[dynamic_sig_models].val) = sig_model_count
        /\ sig_slot <= sig_model_count
        /\ vnd_slot <= vnd_model_count
        /\ dynamic_vnd_models # NULL => Len(heap[dynamic_vnd_models].val) = vnd_model_count
        /\ WrittenSlots(dynamic_sig_models) = 0..(sig_slot - 1)
        /\ WrittenSlots(dynamic_vnd_models) = 0..(vnd_slot - 1)
        /\ sig_slot = SlotsOfEntries.sig
        /\ vnd_slot = SlotsOfEntries.vnd
        /\ \A j, k \in RegistryEntries :
               j # k => model_registry[j].esp_model # model_registry[k].esp_model
        /\ pc = "ready" => (sig_slot = sig_model_count /\ vnd_slot = vnd_model_count)

\* C31: in the placement pass the SIG cursor starts at 1 and the vendor
\* cursor at 0, every record is written below the array size, no slot is
\* written twice (the slots written are exactly those below the cursor, as
\* many as the counted entries account for), distinct registry entries
\* refer to distinct slots, after a successful build each cursor equals its
\* slot count, and no later step moves, resizes or frees the arrays.
C31_PlacementExact ==
    /\ []PlacementExact
    /\ [][pc = "ready" =>
              /\ dynamic_sig_models' = dynamic_sig_models
              /\ dynamic_vnd_models' = dynamic_vnd_models
              /\ sig_model_count' = sig_model_count
              /\ vnd_model_count' = vnd_model_count
              /\ Live(heap', dynamic_sig_models)
              /\ Len(heap'[dynamic_sig_models].val) = sig_model_count
              /\ dynamic_vnd_models # NULL =>
                     /\ Live(heap', dynamic_vnd_models)
                     /\ Len(heap'[dynamic_vnd_models].val) = vnd_model_count]_vars

\* a build of a switch, a vendor model and a dimmer, and a call after it
C31_Witness ==
    /\ pc = "ready"
    /\ PlacementRan
    /\ sig_slot = 3
    /\ vnd_slot = 1
    /\ sig_model_count = 3
    /\ vnd_model_count = 1
    /\ last.op = "set_level"
    /\ last.ret = ESP_OK

(***************************************************************************)
(* A set that publishes, on an instance without publish address.           *)
(***************************************************************************)
\* the last call was a set with publish = true on a registered switch or
\* dimmer whose publish address is unassigned
SetPublishUnassigned ==
    /\ last.op \in {"set_onoff", "set_level"}
    /\ last.args[3] = 1
    /\ Target(last) # NULL
    /\ heap[Target(last)].val.pub_addr = ESP_BLE_MESH_ADDR_UNASSIGNED

\* C32: mesh_model_set_onoff / mesh_model_set_level with publish = true on
\* an instance whose publish address is unassigned returns InvalidState
\* and makes no send call, yet a following get returns the new value and
\* the change callback, when there is one, was invoked once with it.
C32_SetNotRolledBack ==
    SetPublishUnassigned =>
        LET st == heap[Target(last)].val IN
        /\ pc = "ready"
        /\ last.ret = ESP_ERR_INVALID_STATE
        /\ last.sends = <<>>
        /\ GetAfter = last.args[2]
        /\ last.cbs = Calls(st.callback, last.args[2], st.user_data)

\* mesh_model_set_level(0, 300, true) on the dimmer with a change callback,
\* before the provisioner bound a publish address
C32_Witness ==
    /\ SetPublishUnassigned
    /\ last.op = "set_level"
    /\ last.ret = ESP_ERR_INVALID_STATE
    /\ Len(last.cbs) = 1
    /\ last.cbs[1].arg = last.args[2]
    /\ mesh_model_get_level(heap, last.args[1]).val = last.args[2]
    /\ last.args[2] # 0

(***************************************************************************)
(* mesh_model_publish_sensor without publish address.                      *)
(***************************************************************************)
\* the 0-based position of the property of the last sensor call in the list
\* of the sensor model it addressed
SensorIdx == sensor_index(heap[SensorTarget].val.sensors, last.args[2], 0)

\* the raw-value buffer of that property
RawValueBuf == heap[heap[SensorTarget].val.sensor_states].val[SensorIdx + 1].raw_value

\* the last call was publish_sensor for a registered property of a sensor
\* model whose publish address is unassigned, and the reading was obtained
\* (the read callback returned ESP_OK, or there is none and the value is 0)
PublishSensorUnassigned ==
    /\ last.op = "publish_sensor"
    /\ SensorTarget # NULL
    /\ SensorIdx >= 0
    /\ heap[SensorTarget].val.pub_addr = ESP_BLE_MESH_ADDR_UNASSIGNED
    /\ last.cbs # <<>> => last.inp.cbret = ESP_OK

\* C33: mesh_model_publish_sensor for a registered property id on a sensor
\* model with an unassigned publish address invokes the read callback,
\* overwrites the property's raw-value buffer with the 4-byte little-endian
\* reading and then returns InvalidState; the status publication buffer
\* and every other block are left as they were and no send call is made.
C33_ReadBeforeAddressCheck ==
    [][PublishSensorUnassigned' =>
          LET cfgd == heap[SensorTarget'].val.sensors[SensorIdx' + 1]
              reading == IF cfgd.read # "NULL" THEN last'.inp.cbval ELSE 0
          IN /\ last'.ret = ESP_ERR_INVALID_STATE
             /\ last'.sends = <<>>
             /\ pc' = "ready"
             /\ last'.cbs = IF cfgd.read # "NULL"
                            THEN <<CbCall(cfgd.read, last'.args[2], NULL)>> ELSE <<>>
             /\ heap'[RawValueBuf'].val.len = 4
             /\ heap'[RawValueBuf'].val.data = Bytes_le32(reading)
             /\ \A p \in 1..Len(heap) : p # RawValueBuf' => heap'[p] = heap[p]
             /\ Len(heap') = Len(heap)]_vars

\* the reading -1 left in the raw-value buffer of property 0x5001 by a
\* publish that returned InvalidState, on a sensor model with a status
\* publication buffer
C33_Witness ==
    /\ PublishSensorUnassigned
    /\ last.args[2] = 20481
    /\ last.inp.cbval = -1
    /\ Len(last.cbs) = 1
    /\ last.ret = ESP_ERR_INVALID_STATE
    /\ heap[RawValueBuf].val.data = <<255, 255, 255, 255>>
    /\ heap[SensorTarget].val.pub_msg # NULL
    /\ heap[heap[SensorTarget].val.pub_msg].val.len = 0

(***************************************************************************)
(* The sensor accessors by property id.                                    *)
(***************************************************************************)
\* the last call was a sensor accessor on a registered sensor model
SensorCall ==
    /\ last.op \in {"read_sensor", "publish_sensor"}
    /\ SensorTarget # NULL

\* the read callback of the property the last sensor call named
ReadCallback == heap[SensorTarget].val.sensors[SensorIdx + 1].read

\* C34: on a registered sensor model, mesh_model_read_sensor and
\* mesh_model_publish_sensor return not-found for a property id that is not
\* in the model's list; when the property's read callback returns an error
\* both return that error, and nothing is written or sent; when the
\* property has no read callback, read returns InvalidState, whereas
\* publish goes on with the value 0: it writes 0 to the raw-value buffer
\* and, the publish address being assigned, sends a status carrying 0.
C34_SensorByPropertyId ==
    [][SensorCall' =>
          CASE SensorIdx' < 0 ->
                   /\ last'.ret = ESP_ERR_NOT_FOUND
                   /\ heap' = heap
                   /\ last'.cbs = <<>>
                   /\ last'.sends = <<>>
            [] SensorIdx' >= 0 /\ ReadCallback' # "NULL" /\ last'.inp.cbret # ESP_OK ->
                   /\ last'.ret = last'.inp.cbret
                   /\ heap' = heap
                   /\ Len(last'.cbs) = 1
                   /\ last'.sends = <<>>
            [] SensorIdx' >= 0 /\ ReadCallback' = "NULL" /\ last'.op = "read_sensor" ->
                   /\ last'.ret = ESP_ERR_INVALID_STATE
                   /\ heap' = heap
                   /\ last'.cbs = <<>>
                   /\ last'.sends = <<>>
            [] SensorIdx' >= 0 /\ ReadCallback' = "NULL" /\ last'.op = "publish_sensor" ->
                   /\ last'.cbs = <<>>
                   /\ heap'[RawValueBuf'].val.data = <<0, 0, 0, 0>>
                   /\ IF heap[SensorTarget'].val.pub_addr # ESP_BLE_MESH_ADDR_UNASSIGNED
                      THEN /\ Len(last'.sends) = 1
                           /\ Int32Of(SubSeq(last'.sends[1].data, 4, 7)) = 0
                           /\ last'.ret = last'.inp.send
                      ELSE /\ last'.sends = <<>>
                           /\ last'.ret = ESP_ERR_INVALID_STATE
            [] OTHER -> TRUE]_vars

\* a publish whose read callback failed, on a sensor model with a publish
\* address, after an earlier publish had left a reading in the buffers
C34_Witness ==
    /\ SensorCall
    /\ last.op = "publish_sensor"
    /\ SensorIdx >= 0
    /\ ReadCallback # "NULL"
    /\ last.inp.cbret = "ESP_FAIL"
    /\ last.ret = "ESP_FAIL"
    /\ last.sends = <<>>
    /\ heap[SensorTarget].val.pub_addr # ESP_BLE_MESH_ADDR_UNASSIGNED
    /\ heap[RawValueBuf].val.len = 4
    /\ heap[heap[SensorTarget].val.pub_msg].val.len = 7

(***************************************************************************)
(* The change callback of a switch or dimmer.                              *)
(***************************************************************************)
SetCalls == {"set_onoff", "set_level", "node_set_onoff_state"}
SetEvents == {"evt_onoff_set", "evt_level_set"}

\* the instance a set call or an inbound set event works on (NULL: none)
ChangeTarget ==
    CASE last.op = "set_onoff" -> find_onoff_model(last.args[1])
      [] last.op = "set_level" -> find_level_model(last.args[1])
      [] last.op \in {"node_set_onoff_state", "evt_onoff_set"} -> find_onoff_model(0)
      [] last.op = "evt_level_set" -> find_level_model(0)
      [] OTHER -> NULL

\* the value it carries
ChangeValue ==
    CASE last.op \in {"set_onoff", "set_level"} -> last.args[2]
      [] last.op = "node_set_onoff_state" -> last.args[1]
      [] OTHER -> last.args[3]

\* the value the instance stores
StoredValue(st) ==
    IF last.op \in {"set_level", "evt_level_set"}
    THEN heap[st].val.level ELSE heap[st].val.onoff

\* the position of a statement in a handler's statement list
PosIn(stmts, x) == CHOOSE n \in 1..Len(stmts) : stmts[n] = x

\* C35: a set call (with or without publish) and an inbound set event on a
\* registered switch or dimmer invoke the change callback exactly once,
\* with the new value, which the instance then stores (the callback is the
\* statement after the stores); with a NULL callback nothing is invoked and
\* the set without publish returns ESP_OK; a publish call invokes no
\* callback; an inbound event makes no send call.
C35_ChangeCallbackOnce ==
    /\ (last.op \in SetCalls \cup SetEvents /\ ChangeTarget # NULL) =>
           LET st == heap[ChangeTarget].val IN
           /\ last.cbs = Calls(st.callback, ChangeValue, st.user_data)
           /\ Len(last.cbs) = IF st.callback = "NULL" THEN 0 ELSE 1
           /\ StoredValue(ChangeTarget) = ChangeValue
           /\ (st.callback = "NULL" /\ last.op \in {"set_onoff", "set_level"}
                  /\ last.args[3] = 0) => (last.ret = ESP_OK /\ pc = "ready")
    /\ last.op \in {"publish_onoff", "publish_level"} => last.cbs = <<>>
    /\ last.op \in SetEvents \cup {"evt_generic_other"} =>
           (last.sends = <<>> /\ pc = "ready")
    /\ PosIn(SetStmts, "callback") > PosIn(SetStmts, "value")
    /\ PosIn(StackStmts, "callback") > PosIn(StackStmts, "value")

\* an inbound Generic Level Set on the dimmer with a change callback and a
\* publish address: one callback with the new value, no send
C35_Witness ==
    /\ last.op = "evt_level_set"
    /\ ChangeTarget # NULL
    /\ last.args[3] = 300
    /\ Len(last.cbs) = 1
    /\ last.cbs[1].arg = 300
    /\ heap[ChangeTarget].val.level = 300
    /\ heap[ChangeTarget].val.pub_addr # ESP_BLE_MESH_ADDR_UNASSIGNED
    /\ last.sends = <<>>

(***************************************************************************)
(* The array globals after the build.                                      *)
(***************************************************************************)
\* the global arr is NULL or points to a live array of n records
NullOrLiveArray(arr, n) ==
    arr = NULL \/ (Live(heap, arr) /\ Len(heap[arr].val) = n)

\* C36: after node_init returned, whether the build succeeded or failed,
\* dynamic_sig_models and dynamic_vnd_models are each NULL or point to a
\* live allocation of sig_model_count / vnd_model_count records.
C36_GlobalsLiveOrNull ==
    pc \in {"ready", "failed"} =>
        /\ NullOrLiveArray(dynamic_sig_models, sig_model_count)
        /\ NullOrLiveArray(dynamic_vnd_models, vnd_model_count)

\* the vendor array could not be allocated: the SIG array was freed and
\* dynamic_sig_models still points to it
C36_Witness ==
    /\ pc = "failed"
    /\ initRet = ESP_ERR_NO_MEM
    /\ vnd_model_count > 0
    /\ dynamic_vnd_models = NULL
    /\ dynamic_sig_models # NULL
    /\ heap[dynamic_sig_models].frees = 1
    /\ logmsg = "Failed to build models"

(***************************************************************************)
(* The compact encoding over the whole range of the axes.                  *)
(***************************************************************************)
\* the six axes and the divisor of each
AxisInputs ==
    <<<<app.accel_x, 100>>, <<app.accel_y, 100>>, <<app.accel_z, 100>>,
      <<app.gyro_x, 10>>, <<app.gyro_y, 10>>, <<app.gyro_z, 10>>>>

\* x / d of C: the quotient whose remainder has the sign of x and is
\* smaller than d, which is the floor of x / d or the integer above it
TruncQuot(x, d) == CHOOSE q \in {x \div d, (x \div d) + 1} :
                      /\ q * d + (x - q * d) = x
                      /\ IF x >= 0 THEN (x - q * d) \in 0..(d - 1)
                                    ELSE (x - q * d) \in (1 - d)..0

\* C37: the timestamp field is the millisecond clock modulo 65536; for
\* every int16_t input the byte of an axis, read as int8_t, is the quotient
\* input / divisor truncated toward zero when the quotient is in -128..127,
\* which it is for every |accel| <= 12799 and |gyro| <= 1279, and otherwise
\* it is the quotient reduced modulo 256 into -128..127, not the nearest
\* bound.
C37_CompactEncodingWholeRange ==
    last.op = "publish_imu_data" =>
        /\ Len(last.sends) = 1
        /\ Len(last.sends[1].data) = 8
        /\ last.sends[1].data[1] + 256 * last.sends[1].data[2]
             = (last.args[1] \div 1000) % 65536
        /\ \A n \in 1..6 :
              LET x == AxisInputs[n][1]
                  d == AxisInputs[n][2]
                  q == TruncQuot(x, d)
                  e == S8(last.sends[1].data[2 + n])
                  mag == IF x < 0 THEN -x ELSE x
              IN  /\ last.sends[1].data[2 + n] \in 0..255
                  /\ q \in -128..127 => e = q
                  /\ mag <= 128 * d - 1 => q \in -128..127
                  /\ (e - q) % 256 = 0

\* 12800 on every axis: 128 wraps to -128 for the accelerometer, 1280 to 0
\* for the gyroscope
C37_Witness ==
    /\ last.op = "publish_imu_data"
    /\ app = Axes(12800, 12800, 12800, 12800, 12800, 12800)
    /\ last.args[1] = 65535999
    /\ last.sends[1].data = <<255, 255, 128, 128, 128, 0, 0, 0>>

(***************************************************************************)
(* Provisioning and the publish task.                                      *)
(***************************************************************************)
\* the step is a vendor send of imu_publish_task
TaskSends == imu_task'.sent = imu_task.sent + 1

\* C38: is_provisioned becomes true only in the provisioned callback; a
\* read of imu_publish_task returns true only when the flag is true; every
\* send of the task is made from the publish statement of an iteration
\* whose read returned true, so none is made before the provisioned
\* callback ran; and the task at its publish statement sends whatever
\* is_provisioned holds by then (C38_Witness: the reset callback cleared it
\* after the read).
C38_ProvisioningGatesPublishing ==
    /\ [](imu_task.pc \in {"update", "publish"} => imu_task.flag_read)
    /\ [](imu_task.sent > 0 => last.op # "none")
    /\ [][/\ (is_provisioned' /\ ~is_provisioned) => last'.op = "evt_prov_complete"
          /\ (imu_task'.flag_read /\ ~imu_task.flag_read) =>
                 (is_provisioned /\ imu_task.pc = "check")
          /\ (imu_task.pc = "check" /\ imu_task'.pc = "update") =>
                 (is_provisioned /\ imu_task'.flag_read)
          /\ TaskSends =>
                 /\ imu_task.flag_read
                 /\ imu_task.pc = "publish"
                 /\ imu_task'.pc = "check"
                 /\ last'.op = "publish_imu_data"
                 /\ Len(last'.sends) = 1
          /\ (imu_task.pc = "publish" /\ imu_task'.pc = "check") => TaskSends
          /\ last' # last /\ last'.op = "publish_imu_data" => TaskSends]_vars

\* the reset callback cleared the flag between the read that returned true
\* and the send: the message was sent with is_provisioned false
C38_Witness ==
    /\ imu_task.sent > 0
    /\ imu_task.flag_read
    /\ ~imu_task.flag_at_send
    /\ ~is_provisioned
    /\ pc = "resetting"
    /\ last.op = "publish_imu_data"
    /\ Len(last.sends) = 1

====
